---- MODULE Spec2Model ----
(***************************************************************************)
(* Vault-Relay backend: the message ledger (createMessage, markAsRead,     *)
(* editMessage, deleteMessage), the block registry, the friendship state   *)
(* machine and the direct-conversation directory, over a PostgreSQL store  *)
(* accessed through Prisma at the default READ COMMITTED isolation.        *)
(*                                                                         *)
(* A request handler is a process: every `await` on the store is one step, *)
(* so handlers interleave between statements.  An interactive transaction  *)
(* buffers its writes in the process and applies them in its commit step;  *)
(* reads inside it see the committed store (READ COMMITTED).               *)
(***************************************************************************)
EXTENDS Integers, FiniteSets, Sequences, TLC

\* ---------------------------------------------------------------- bounds
MaxMsgs == 2
MaxTime == 1
MaxUploads == 2
MaxTokens == 5

\* ------------------------------------------------------------- constants
Null == 0
Members == {1, 2}
Users == {1, 2, 3}
Procs == {1, 2, 3}
Workers == {1, 2}
ConvIds == {1, 2}
MsgIds == 1..MaxMsgs
Times == 0..MaxTime
ContentTypes == {"TEXT", "SIGNAL_KEY_DISTRIBUTION"}
NoKey == <<>>

VARIABLES
    conversations,  \* Conversation rows
    participants,   \* Participant rows: <<conversationId, userId>> -> [role, unreadCount]
    messages,       \* Message rows
    receipts,       \* MessageReceipt rows: <<messageId, userId>>
    friendships,    \* Friendship rows: <<requesterId, addresseeId>> -> status
    fsLock,         \* Friendship rows locked by an open transaction: key -> process
    nextMsgId,      \* next fresh message id
    nextConvId,     \* next fresh conversation id
    now,            \* the clock
    pc,             \* per handler: the statement it is at
    call,           \* per handler: arguments and locals
    ret,            \* what the most recently finished call returned
    nSent,          \* history: per user, non-control messages sent to them
    nRead,          \* history: per user, non-control messages they marked read
    pager,          \* a client paging through getMessages or listConversations
    userSockets,    \* socketService.userSockets: per user, the ids of its sockets
    userStatus,     \* User.status and User.lastSeen
    socks,          \* per socket: its connection and the handler running for it
    rooms,          \* <<socket, room>>: the rooms a socket has joined
    emitted,        \* what the most recent handler emitted
    identityKeys,   \* the users with an IdentityKey row
    signedPreKeys,  \* the users with a SignedPreKey row
    oneTimePreKeys, \* OneTimePreKey rows: <<userId, keyId, upload>>
    uploads,        \* history: the number of uploads of one-time pre-keys so far
    otpReturned,    \* history: the one-time pre-keys handed out, in order
    refreshTokens,  \* RefreshToken rows: id -> [userId, revoked, expiresAt, replacedById]
    nextTokenId     \* next fresh refresh-token id

vars == <<conversations, participants, messages, receipts, friendships, fsLock,
          nextMsgId, nextConvId, now, pc, call, ret, nSent, nRead, pager,
          userSockets, userStatus, socks, rooms, emitted,
          identityKeys, signedPreKeys, oneTimePreKeys, uploads, otpReturned,
          refreshTokens, nextTokenId>>

\* The token store's state.
tokVars == <<refreshTokens, nextTokenId>>

\* The key store's state.
keyVars == <<identityKeys, signedPreKeys, oneTimePreKeys, uploads, otpReturned>>

\* The push channel's state.
sockVars == <<userSockets, userStatus, socks, rooms, emitted>>


\* ------------------------------------------------------------ small helpers
Max(a, b) == IF a > b THEN a ELSE b

EmptyCall ==
    [op |-> "none", user |-> Null, conv |-> Null, arg |-> Null, ctype |-> "TEXT",
     reply |-> Null, sel |-> {}, at |-> 0, fkey |-> NoKey, fstatus |-> "NONE",
     msg |-> Null]

NoRet == [op |-> "none", err |-> "", marked |-> 0, unread |-> 0, conv |-> Null,
          user |-> Null, arg |-> Null, key |-> NoKey, path |-> ""]
\* Nobody is paging.
NoPager == [kind |-> "none", user |-> Null, conv |-> Null, limit |-> 0,
            token |-> [kind |-> "none"], pages |-> <<>>, snapshot |-> {},
            x |-> [kind |-> "null"], parsed |-> [kind |-> "null"]]

Ok(op) == [NoRet EXCEPT !.op = op]

ConvById(c) == {cv \in conversations : cv.id = c}
MsgById(m) == {ms \in messages : ms.id = m}
IsParticipant(c, u) == <<c, u>> \in DOMAIN participants
ParticipantsOf(c) == {k[2] : k \in {kk \in DOMAIN participants : kk[1] = c}}

\* A handler takes its next statement at `label`.  Sending a response touches
\* no shared state, so no other handler is scheduled in between.
At(p, label) == pc[p] = label /\ \A q \in Procs : pc[q] # "done"

\* A call arrives: handlers are interchangeable, the lowest free one serves it.
Free(p) == At(p, "idle") /\ \A q \in Procs : q < p => pc[q] # "idle"

\* The call returns `result`.
Finish(p, result) == /\ pc' = [pc EXCEPT ![p] = "done"]
                     /\ call' = [call EXCEPT ![p] = EmptyCall]
                     /\ ret' = result
                     /\ pager' = pager
                     /\ UNCHANGED sockVars
                     /\ UNCHANGED <<keyVars, tokVars>>

\* The call throws (or answers with an error status).
Fail(p, op, e) == Finish(p, [Ok(op) EXCEPT !.err = e])

Goto(p, label, fields) == /\ pc' = [pc EXCEPT ![p] = label]
                          /\ call' = [call EXCEPT ![p] = fields]
                          /\ ret' = ret
                          /\ pager' = pager
                          /\ UNCHANGED sockVars
                          /\ UNCHANGED <<keyVars, tokVars>>

\* ------------------------------------------------------------ push channel, idle
Never == 0 - 1
Sockets == {1, 2, 3}
\* socket.user.id: sockets 1 and 2 are devices of user 1, socket 3 is user 2's.
SocketUser(s) == IF s = 3 THEN 2 ELSE 1

ClosedSocket == [st |-> "closed", trigger |-> "none", at |-> 0, ev |-> "none",
                 conv |-> Null, msg |-> Null, ctype |-> "TEXT", ack |-> FALSE,
                 res |-> "none"]

\* Nobody is connected; every user is OFFLINE and was never seen.
SockInit ==
    /\ userSockets = [u \in Users |-> {}]
    /\ userStatus = [u \in Users |-> [status |-> "OFFLINE", lastSeen |-> Never]]
    /\ socks = [s \in Sockets |-> ClosedSocket]
    /\ rooms = {}
    /\ emitted = {}

\* No refresh token has been issued.
TokInit ==
    /\ refreshTokens = <<>>
    /\ nextTokenId = 1

\* Everybody has completed the key setup; no one-time pre-key is stored.
KeyInit ==
    /\ identityKeys = Users
    /\ signedPreKeys = Users
    /\ oneTimePreKeys = {}
    /\ uploads = 0
    /\ otpReturned = <<>>

\* ------------------------------------------------------------ block registry
\* Mutant: only the orientation (userAId, userBId) is looked up.
IsBlocked_OneWay(userAId, userBId) ==
    \E k \in DOMAIN friendships :
        friendships[k] = "BLOCKED" /\ k[1] = userAId /\ k[2] = userBId

\* blockService.isBlocked: a BLOCKED row in either orientation.
IsBlocked(userAId, userBId) ==
    \E k \in DOMAIN friendships :
        /\ friendships[k] = "BLOCKED"
        /\ \/ (k[1] = userAId /\ k[2] = userBId)
           \/ (k[1] = userBId /\ k[2] = userAId)

\* ------------------------------------------------------------ message ledger
\* Mutant: the control type is compared with a literal no message carries.
IsKeyDistribution_Misspelt(contentType) == contentType = "SIGNAL_KEY_DISTRIBUTON"

IsKeyDistribution(contentType) == contentType = "SIGNAL_KEY_DISTRIBUTION"

\* createMessage, first statements: argument validation, then the conversation,
\* the sender's membership and (DIRECT) the other participant are looked up.
CmStart(p, senderId, conversationId, contentType, hasBody, replyToId) ==
    /\ Free(p)
    /\ nextMsgId + Cardinality({q \in Procs : pc[q] \in {"cm_blocked", "cm_insert"}}) <= MaxMsgs
    /\ LET c0 == [EmptyCall EXCEPT !.op = "createMessage", !.user = senderId,
                                   !.conv = conversationId, !.ctype = contentType,
                                   !.reply = replyToId]
           others == ParticipantsOf(conversationId) \ {senderId}
       IN IF ~hasBody /\ ~IsKeyDistribution(contentType)
            THEN Fail(p, "createMessage", "InvalidArgument")
          ELSE IF ConvById(conversationId) = {}
            THEN Fail(p, "createMessage", "NotFound")
          ELSE IF ~IsParticipant(conversationId, senderId)
            THEN Fail(p, "createMessage", "ForbiddenNotParticipant")
          ELSE IF (CHOOSE cv \in ConvById(conversationId) : TRUE).type = "DIRECT"
                  /\ others # {}
            THEN \E o \in others : Goto(p, "cm_blocked", [c0 EXCEPT !.arg = o])
          ELSE Goto(p, "cm_insert", c0)
    /\ UNCHANGED <<conversations, participants, messages, receipts, friendships,
                   fsLock, nextMsgId, nextConvId, now, nSent, nRead>>

\* createMessage: the block check of a DIRECT conversation.
CmBlocked(p) ==
    /\ At(p, "cm_blocked")
    /\ IF IsBlocked(call[p].arg, call[p].user)
         THEN Fail(p, "createMessage", "ForbiddenBlocked")
         ELSE Goto(p, "cm_insert", call[p])
    /\ UNCHANGED <<conversations, participants, messages, receipts, friendships,
                   fsLock, nextMsgId, nextConvId, now, nSent, nRead>>

\* Mutant: the insert runs outside the transaction, the row is visible at once.
CmInsertWrite_Autocommit(p, row) == messages' = messages \cup {row}

\* Inside the transaction the inserted row stays invisible until commit.
CmInsertWrite(p, row) == messages' = messages

\* createMessage: the transaction opens and inserts the Message row (foreign keys
\* on the conversation and on replyToId are checked by the insert).
CmInsert(p) ==
    /\ At(p, "cm_insert")
    /\ LET row == [id |-> nextMsgId, conv |-> call[p].conv, sender |-> call[p].user,
                   ctype |-> call[p].ctype, createdAt |-> now, edited |-> FALSE]
       IN IF \/ ConvById(call[p].conv) = {}
             \/ (call[p].reply # Null /\ MsgById(call[p].reply) = {})
            THEN /\ Fail(p, "createMessage", "ForeignKey")
                 /\ UNCHANGED <<messages, nextMsgId>>
            ELSE /\ Goto(p, "cm_commit", [call[p] EXCEPT !.msg = nextMsgId, !.at = now])
                 /\ nextMsgId' = nextMsgId + 1
                 /\ CmInsertWrite(p, row)
    /\ UNCHANGED <<conversations, participants, receipts, friendships, fsLock,
                   nextConvId, now, nSent, nRead>>

\* createMessage: recipients are the participants other than the sender; unless
\* the message is a key distribution, every recipient's unreadCount is
\* incremented and the conversation's lastMessageId/updatedAt are set; commit.
CmCommit(p) ==
    /\ At(p, "cm_commit")
    /\ LET c == call[p].conv
           row == [id |-> call[p].msg, conv |-> c, sender |-> call[p].user,
                   ctype |-> call[p].ctype, createdAt |-> call[p].at, edited |-> FALSE]
           recipients == ParticipantsOf(c) \ {call[p].user}
           counted == ~IsKeyDistribution(call[p].ctype)
       IN /\ messages' = messages \cup {row}
          /\ participants' =
                [k \in DOMAIN participants |->
                    IF counted /\ k[1] = c /\ k[2] \in recipients
                      THEN [participants[k] EXCEPT !.unreadCount = @ + 1]
                      ELSE participants[k]]
          /\ conversations' =
                {IF counted /\ cv.id = c
                   THEN [cv EXCEPT !.lastMessageId = call[p].msg, !.updatedAt = now]
                   ELSE cv : cv \in conversations}
          /\ nSent' = [u \in Users |->
                         IF counted /\ u \in recipients THEN nSent[u] + 1 ELSE nSent[u]]
          /\ Finish(p, [Ok("createMessage") EXCEPT !.conv = c, !.arg = call[p].msg])
    /\ UNCHANGED <<receipts, friendships, fsLock, nextMsgId, nextConvId, now, nRead>>

\* Mutant: the boundary is exclusive (lt instead of lte).
UnreadMessages_Exclusive(userId, conversationId, bounded, boundary) ==
    {ms.id : ms \in {m \in messages :
                        /\ m.conv = conversationId
                        /\ m.sender # userId
                        /\ (bounded => m.createdAt < boundary)
                        /\ <<m.id, userId>> \notin receipts}}

\* markAsRead's selection: messages of the conversation authored by someone
\* else, created at or before the boundary, with no receipt of the user.
UnreadMessages(userId, conversationId, bounded, boundary) ==
    {ms.id : ms \in {m \in messages :
                        /\ m.conv = conversationId
                        /\ m.sender # userId
                        /\ (bounded => m.createdAt <= boundary)
                        /\ <<m.id, userId>> \notin receipts}}

MrSelected(p, fields, bounded, boundary) ==
    LET sel == UnreadMessages(fields.user, fields.conv, bounded, boundary)
    IN Goto(p, IF sel = {} THEN "mr_zero" ELSE "mr_write", [fields EXCEPT !.sel = sel])

\* markAsRead, first statement: the boundary message is looked up when one is
\* given, otherwise the unread messages are selected at once.
MrStart(p, userId, conversationId, lastReadMessageId) ==
    /\ Free(p)
    /\ LET c0 == [EmptyCall EXCEPT !.op = "markAsRead", !.user = userId,
                                   !.conv = conversationId, !.arg = lastReadMessageId]
           target == {m \in messages : m.id = lastReadMessageId}
       IN IF lastReadMessageId = Null
            THEN MrSelected(p, c0, FALSE, 0)
          ELSE IF target = {} \/ (\E m \in target : m.conv # conversationId)
            THEN Fail(p, "markAsRead", "InvalidArgument")
          ELSE Goto(p, "mr_select",
                    [c0 EXCEPT !.at = (CHOOSE m \in target : TRUE).createdAt])
    /\ UNCHANGED <<conversations, participants, messages, receipts, friendships,
                   fsLock, nextMsgId, nextConvId, now, nSent, nRead>>

\* markAsRead: the unread messages up to the boundary are selected.
MrSelect(p) ==
    /\ At(p, "mr_select")
    /\ MrSelected(p, call[p], TRUE, call[p].at)
    /\ UNCHANGED <<conversations, participants, messages, receipts, friendships,
                   fsLock, nextMsgId, nextConvId, now, nSent, nRead>>

\* markAsRead with nothing selected: the stored count is read and returned.
MrZero(p) ==
    /\ At(p, "mr_zero")
    /\ LET k == <<call[p].conv, call[p].user>>
       IN Finish(p, [Ok("markAsRead") EXCEPT !.marked = 0,
                        !.unread = IF k \in DOMAIN participants
                                     THEN participants[k].unreadCount ELSE 0])
    /\ UNCHANGED <<conversations, participants, messages, receipts, friendships,
                   fsLock, nextMsgId, nextConvId, now, nSent, nRead>>

\* The count markAsRead decrements by: the number of messages it selected.
MrCount(sel, inserted) == Cardinality(sel)

\* markAsRead: receipts are inserted for the selection (duplicates skipped), the
\* participant's unreadCount is decremented by the number selected and reset to
\* zero if it went negative; commit.
MrWrite(p) ==
    /\ At(p, "mr_write")
    /\ LET u == call[p].user
           k == <<call[p].conv, u>>
           sel == call[p].sel
           inserted == {m \in sel : <<m, u>> \notin receipts}
           count == MrCount(sel, inserted)
       IN IF \E m \in sel : MsgById(m) = {}
            THEN /\ Fail(p, "markAsRead", "ForeignKey")
                 /\ UNCHANGED <<participants, receipts, nRead>>
          ELSE IF k \notin DOMAIN participants
            THEN /\ Fail(p, "markAsRead", "RecordNotFound")
                 /\ UNCHANGED <<participants, receipts, nRead>>
          ELSE /\ receipts' = receipts \cup {<<m, u>> : m \in sel}
               /\ participants' = [participants EXCEPT ![k].unreadCount =
                                      Max(0, @ - count)]
               /\ nRead' = [nRead EXCEPT ![u] = @ + Cardinality(
                                {m \in inserted : \E ms \in MsgById(m) :
                                                     ~IsKeyDistribution(ms.ctype)})]
               /\ Finish(p, [Ok("markAsRead") EXCEPT !.marked = count,
                                !.unread = Max(0, participants[k].unreadCount - count)])
    /\ UNCHANGED <<conversations, messages, friendships, fsLock, nextMsgId,
                   nextConvId, now, nSent>>

\* editMessage, first statements: content validation, then the message is
\* looked up and its sender compared with the caller.
EdStart(p, messageId, userId, hasContent) ==
    /\ Free(p)
    /\ LET c0 == [EmptyCall EXCEPT !.op = "editMessage", !.user = userId,
                                   !.arg = messageId]
       IN IF ~hasContent THEN Fail(p, "editMessage", "InvalidArgument")
          ELSE IF MsgById(messageId) = {} THEN Fail(p, "editMessage", "NotFound")
          ELSE IF (CHOOSE m \in MsgById(messageId) : TRUE).sender # userId
            THEN Fail(p, "editMessage", "Forbidden")
          ELSE Goto(p, "ed_update", c0)
    /\ UNCHANGED <<conversations, participants, messages, receipts, friendships,
                   fsLock, nextMsgId, nextConvId, now, nSent, nRead>>

\* editMessage: content and editedAt are updated; the participants are read
\* for the fan-out.
EdUpdate(p) ==
    /\ At(p, "ed_update")
    /\ IF MsgById(call[p].arg) = {}
         THEN /\ Fail(p, "editMessage", "RecordNotFound")
              /\ UNCHANGED messages
         ELSE /\ messages' = {IF m.id = call[p].arg THEN [m EXCEPT !.edited = TRUE] ELSE m
                                : m \in messages}
              /\ Finish(p, [Ok("editMessage") EXCEPT !.arg = call[p].arg])
    /\ UNCHANGED <<conversations, participants, receipts, friendships, fsLock,
                   nextMsgId, nextConvId, now, nSent, nRead>>

\* deleteMessage, first statement: the message is looked up and its sender
\* compared with the caller.
DlStart(p, messageId, userId) ==
    /\ Free(p)
    /\ LET c0 == [EmptyCall EXCEPT !.op = "deleteMessage", !.user = userId,
                                   !.arg = messageId]
       IN IF MsgById(messageId) = {} THEN Fail(p, "deleteMessage", "NotFound")
          ELSE IF (CHOOSE m \in MsgById(messageId) : TRUE).sender # userId
            THEN Fail(p, "deleteMessage", "Forbidden")
          ELSE Goto(p, "dl_delete", c0)
    /\ UNCHANGED <<conversations, participants, messages, receipts, friendships,
                   fsLock, nextMsgId, nextConvId, now, nSent, nRead>>

\* deleteMessage: the participants are read for the fan-out and the row is
\* deleted; MessageReceipt.messageId is ON DELETE RESTRICT.
DlDelete(p) ==
    /\ At(p, "dl_delete")
    /\ IF MsgById(call[p].arg) = {}
         THEN /\ Fail(p, "deleteMessage", "RecordNotFound")
              /\ UNCHANGED messages
       ELSE IF \E r \in receipts : r[1] = call[p].arg
         THEN /\ Fail(p, "deleteMessage", "ForeignKey")
              /\ UNCHANGED messages
       ELSE /\ messages' = {m \in messages : m.id # call[p].arg}
            /\ Finish(p, [Ok("deleteMessage") EXCEPT
                             !.arg = call[p].arg,
                             !.conv = (CHOOSE m \in MsgById(call[p].arg) : TRUE).conv])
    /\ UNCHANGED <<conversations, participants, receipts, friendships, fsLock,
                   nextMsgId, nextConvId, now, nSent, nRead>>

\* The response is sent and the handler is free again.
Return(p) ==
    /\ pc[p] = "done"
    /\ pc' = [pc EXCEPT ![p] = "idle"]
    /\ ret' = NoRet
    /\ UNCHANGED <<conversations, participants, messages, receipts, friendships,
                   fsLock, nextMsgId, nextConvId, now, call, nSent, nRead, pager,
                   sockVars, keyVars, tokVars>>

\* The clock advances.  Timestamps are only ever compared, so the clock is kept
\* to the ticks that separate two rows: it advances once its reading is in use.
Tick ==
    /\ \A q \in Procs : pc[q] # "done"
    /\ now < MaxTime
    /\ \/ \E m \in messages : m.createdAt = now
       \/ \E q \in Procs : pc[q] = "cm_commit" /\ call[q].at = now
       \/ \E u \in Users : userStatus[u].lastSeen = now
       \/ \E s \in Sockets : socks[s].st \in {"od_update", "od_notify"} /\ socks[s].at = now
       \/ \E t \in DOMAIN refreshTokens : refreshTokens[t].expiresAt = now
    /\ now' = now + 1
    /\ UNCHANGED <<conversations, participants, messages, receipts, friendships,
                   fsLock, nextMsgId, nextConvId, pc, call, ret, nSent, nRead, pager,
                   sockVars, keyVars, tokVars>>

\* ------------------------------------------------------------ presence
\* The state the REST handlers and the database own.
restVars == <<conversations, participants, messages, receipts, friendships, fsLock,
              nextMsgId, nextConvId, now, pc, call, ret, nSent, nRead, pager,
              keyVars, tokVars>>

\* An emitted event: its name, the room (or the calling socket) it goes to, and
\* the payload fields the handlers set.
Event(ev, to) == [ev |-> ev, to |-> to, user |-> Null, online |-> FALSE,
                  lastSeen |-> Never, conv |-> Null, msg |-> Null, ok |-> TRUE,
                  unread |-> Never]

UserRoom(u) == <<"user", u>>
ConvRoom(c) == <<"conv", c>>
Caller(s) == <<"socket", s>>

\* notifyFriendsPresence: the rooms of the users with an ACCEPTED friendship.
FriendRooms(userId) ==
    {UserRoom(IF k[1] = userId THEN k[2] ELSE k[1]) :
        k \in {kk \in DOMAIN friendships :
                  friendships[kk] = "ACCEPTED" /\ userId \in {kk[1], kk[2]}}}

\* The presence payload goes to the friends' rooms and to the user's own room.
PresenceEvents(userId, online, lastSeen) ==
    {[Event("presence", r) EXCEPT !.user = userId, !.online = online,
                                  !.lastSeen = lastSeen] :
        r \in FriendRooms(userId) \cup {UserRoom(userId)}}

\* Mutant: every connection counts as the first.
FirstConnection_Any(size) == size >= 1

\* attachSocket: socketSet.size === 1.
FirstConnection(size) == size = 1

\* attachSocket, up to its first await: the socket id is added to the user's
\* set and the socket joins the user's room; the first connection goes on to
\* mark the user ONLINE, any other only reports the tab count.
AsStart(s) ==
    /\ socks[s].st = "closed"
    /\ LET u == SocketUser(s)
           before == Cardinality(userSockets[u])
           set == userSockets[u] \cup {s}
           grew == IF before = 0 /\ Cardinality(set) = 1 THEN "first" ELSE "other"
       IN /\ userSockets' = [userSockets EXCEPT ![u] = set]
          /\ rooms' = rooms \cup {<<s, UserRoom(u)>>}
          /\ IF FirstConnection(Cardinality(set))
               THEN /\ socks' = [socks EXCEPT ![s] = [ClosedSocket EXCEPT
                                         !.st = "as_update", !.trigger = grew]]
                    /\ emitted' = {}
               ELSE /\ socks' = [socks EXCEPT ![s] = [ClosedSocket EXCEPT
                                         !.st = "open", !.trigger = grew]]
                    /\ emitted' = {[Event("presence_debug", UserRoom(u))
                                      EXCEPT !.user = u]}
    /\ UNCHANGED <<restVars, userStatus>>

\* attachSocket: the user row is set to ONLINE.
AsUpdate(s) ==
    /\ socks[s].st = "as_update"
    /\ userStatus' = [userStatus EXCEPT ![SocketUser(s)].status = "ONLINE"]
    /\ socks' = [socks EXCEPT ![s].st = "as_notify"]
    /\ emitted' = {}
    /\ UNCHANGED <<restVars, userSockets, rooms>>

\* attachSocket: presence=true is emitted; the connection is established.
AsNotify(s) ==
    /\ socks[s].st = "as_notify"
    /\ emitted' = PresenceEvents(SocketUser(s), TRUE, Never)
    /\ socks' = [socks EXCEPT ![s].st = "open"]
    /\ UNCHANGED <<restVars, userSockets, userStatus, rooms>>

\* onDisconnect, up to its first await: the socket id leaves the set (and the
\* socket its rooms); with other sockets left nothing else happens, otherwise
\* the user's entry is dropped and lastSeen is taken from the clock.
OdStart(s) ==
    /\ socks[s].st = "open"
    /\ LET u == SocketUser(s)
           set == userSockets[u] \ {s}
           shrank == IF Cardinality(set) = 0 THEN "last" ELSE "other"
       IN /\ userSockets' = [userSockets EXCEPT ![u] = set]
          /\ rooms' = {r \in rooms : r[1] # s}
          /\ IF Cardinality(set) > 0
               THEN socks' = [socks EXCEPT ![s] = [ClosedSocket EXCEPT !.trigger = shrank]]
               ELSE socks' = [socks EXCEPT ![s] = [ClosedSocket EXCEPT
                                     !.st = "od_update", !.trigger = shrank, !.at = now]]
          /\ emitted' = {}
    /\ UNCHANGED <<restVars, userStatus>>

\* onDisconnect: the user row is set to OFFLINE with lastSeen.
OdUpdate(s) ==
    /\ socks[s].st = "od_update"
    /\ userStatus' = [userStatus EXCEPT ![SocketUser(s)] =
                         [status |-> "OFFLINE", lastSeen |-> socks[s].at]]
    /\ socks' = [socks EXCEPT ![s].st = "od_notify"]
    /\ emitted' = {}
    /\ UNCHANGED <<restVars, userSockets, rooms>>

\* onDisconnect: presence=false is emitted with lastSeen.
OdNotify(s) ==
    /\ socks[s].st = "od_notify"
    /\ emitted' = PresenceEvents(SocketUser(s), FALSE, socks[s].at)
    /\ socks' = [socks EXCEPT ![s] = [ClosedSocket EXCEPT !.trigger = socks[s].trigger]]
    /\ UNCHANGED <<restVars, userSockets, userStatus, rooms>>

\* ------------------------------------------------------------ socket events
\* The socket is connected and no handler of it is awaiting anything.
Listening(s) == socks[s].st = "open"

\* The socket's handler is at `await MessageService...`.
Calling(s, ev) == socks[s].st = "call" /\ socks[s].ev = ev

\* Events are taken one at a time: no socket's handler awaits the service and
\* no REST call is in flight.
Quiet == /\ \A s \in Sockets : socks[s].st # "call"
         /\ \A q \in Procs : pc[q] = "idle"

\* The socket as its handler leaves it: listening again, with the event it
\* handled and how that ended.
Handled(s, ev, res) ==
    [ClosedSocket EXCEPT !.st = "open", !.trigger = socks[s].trigger,
                         !.ev = ev, !.res = res]

\* if (ack) ack({ success: ... }).
Ack(s, ack, ok) == IF ack THEN {[Event("ack", Caller(s)) EXCEPT !.ok = ok]} ELSE {}

\* socket.emit('error', ...).
ErrorEvent(s) == {[Event("error", Caller(s)) EXCEPT !.ok = FALSE]}

\* The conversation.updated events of a sent message: one per recipient, with
\* the message as lastMessage and the recipient's unreadCount.
SummaryEvents(m, recipients) ==
    {[Event("conversation.updated", UserRoom(r)) EXCEPT
        !.conv = m.conv, !.msg = m.id,
        !.unread = participants[<<m.conv, r>>].unreadCount] : r \in recipients}

\* What both send paths emit for the created message: `message` to the
\* conversation's room, conversation.updated to every recipient's room.
SendEvents(m) ==
    {[Event("message", ConvRoom(m.conv)) EXCEPT !.conv = m.conv, !.msg = m.id]}
      \cup SummaryEvents(m, ParticipantsOf(m.conv) \ {m.sender})

\* A handler finishes: the service's handler is free again.
Respond(p) ==
    /\ pc[p] = "done"
    /\ pc' = [pc EXCEPT ![p] = "idle"]
    /\ ret' = NoRet
    /\ UNCHANGED <<conversations, participants, messages, receipts, friendships,
                   fsLock, nextMsgId, nextConvId, now, call, nSent, nRead, pager,
                   userSockets, userStatus, rooms, keyVars, tokVars>>

\* send_message arrives: the payload is destructured and validated.
SmReceive(s, conversationId, contentType, valid, ack) ==
    /\ Listening(s) /\ Quiet
    /\ IF valid
         THEN /\ socks' = [socks EXCEPT ![s] = [@ EXCEPT
                              !.st = "call", !.ev = "send_message", !.res = "none",
                              !.conv = conversationId, !.ctype = contentType,
                              !.ack = ack, !.msg = Null]]
              /\ emitted' = {}
         ELSE /\ socks' = [socks EXCEPT ![s] = Handled(s, "send_message", "failed")]
              /\ emitted' = Ack(s, ack, FALSE)
    /\ UNCHANGED <<restVars, userSockets, userStatus, rooms>>

\* send_message: createMessage is called for the socket's user.
SmCall(p) ==
    \E s \in Sockets :
        /\ Calling(s, "send_message")
        /\ \A q \in Procs : pc[q] = "idle"
        /\ CmStart(p, SocketUser(s), socks[s].conv, socks[s].ctype, TRUE, Null)

\* send_message: createMessage returned or threw.
SmRespond(p) ==
    \E s \in Sockets :
        /\ Calling(s, "send_message")
        /\ Respond(p)
        /\ IF ret.err = ""
             THEN /\ emitted' = SendEvents(CHOOSE m \in MsgById(ret.arg) : TRUE)
                                   \cup Ack(s, socks[s].ack, TRUE)
                  /\ socks' = [socks EXCEPT ![s] = Handled(s, "send_message", "ok")]
             ELSE /\ emitted' = Ack(s, socks[s].ack, FALSE)
                  /\ socks' = [socks EXCEPT ![s] = Handled(s, "send_message", "failed")]

\* messagesController.sendMessage: the REST endpoint answers; a created
\* message is emitted like the socket path does, an error goes to next(err).
RestRespond(p) ==
    /\ \A s \in Sockets : socks[s].st # "call"
    /\ Respond(p)
    /\ socks' = socks
    /\ emitted' = IF ret.op = "createMessage" /\ ret.err = ""
                    THEN SendEvents(CHOOSE m \in MsgById(ret.arg) : TRUE)
                    ELSE {}

\* client:edit_message arrives: the new content is validated.
EmReceive(s, messageId, valid) ==
    /\ Listening(s) /\ Quiet
    /\ IF valid
         THEN /\ socks' = [socks EXCEPT ![s] = [@ EXCEPT
                              !.st = "call", !.ev = "edit_message", !.res = "none",
                              !.msg = messageId, !.conv = Null, !.ack = FALSE,
                              !.ctype = "TEXT"]]
              /\ emitted' = {}
         ELSE /\ socks' = [socks EXCEPT ![s] = Handled(s, "edit_message", "failed")]
              /\ emitted' = ErrorEvent(s)
    /\ UNCHANGED <<restVars, userSockets, userStatus, rooms>>

EmCall(p) ==
    \E s \in Sockets :
        /\ Calling(s, "edit_message")
        /\ \A q \in Procs : pc[q] = "idle"
        /\ EdStart(p, socks[s].msg, SocketUser(s), TRUE)

\* client:edit_message: message:edited goes to the room and
\* conversation.updated to every participant; an error goes to the socket.
EmRespond(p) ==
    \E s \in Sockets :
        /\ Calling(s, "edit_message")
        /\ Respond(p)
        /\ IF ret.err = ""
             THEN LET m == CHOOSE ms \in MsgById(ret.arg) : TRUE
                  IN /\ emitted' =
                          {[Event("message:edited", ConvRoom(m.conv)) EXCEPT
                              !.conv = m.conv, !.msg = m.id]}
                            \cup {[Event("conversation.updated", UserRoom(u)) EXCEPT
                                      !.conv = m.conv, !.msg = m.id] :
                                    u \in ParticipantsOf(m.conv)}
                     /\ socks' = [socks EXCEPT ![s] = Handled(s, "edit_message", "ok")]
             ELSE /\ emitted' = ErrorEvent(s)
                  /\ socks' = [socks EXCEPT ![s] = Handled(s, "edit_message", "failed")]

\* client:delete_message arrives.
DmReceive(s, messageId) ==
    /\ Listening(s) /\ Quiet
    /\ socks' = [socks EXCEPT ![s] = [@ EXCEPT
                    !.st = "call", !.ev = "delete_message", !.res = "none",
                    !.msg = messageId, !.conv = Null, !.ack = FALSE, !.ctype = "TEXT"]]
    /\ emitted' = {}
    /\ UNCHANGED <<restVars, userSockets, userStatus, rooms>>

DmCall(p) ==
    \E s \in Sockets :
        /\ Calling(s, "delete_message")
        /\ \A q \in Procs : pc[q] = "idle"
        /\ DlStart(p, socks[s].msg, SocketUser(s))

\* client:delete_message: message:deleted goes to the room and a placeholder
\* conversation.updated to every participant; an error goes to the socket.
DmRespond(p) ==
    \E s \in Sockets :
        /\ Calling(s, "delete_message")
        /\ Respond(p)
        /\ IF ret.err = ""
             THEN /\ emitted' =
                       {[Event("message:deleted", ConvRoom(ret.conv)) EXCEPT
                           !.conv = ret.conv, !.msg = ret.arg]}
                         \cup {[Event("conversation.updated", UserRoom(u)) EXCEPT
                                   !.conv = ret.conv, !.msg = ret.arg] :
                                 u \in ParticipantsOf(ret.conv)}
                  /\ socks' = [socks EXCEPT ![s] = Handled(s, "delete_message", "ok")]
             ELSE /\ emitted' = ErrorEvent(s)
                  /\ socks' = [socks EXCEPT ![s] = Handled(s, "delete_message", "failed")]

\* read_message arrives (with a conversationId; without one the handler
\* returns at once).
RmReceive(s, conversationId, messageId) ==
    /\ Listening(s) /\ Quiet
    /\ socks' = [socks EXCEPT ![s] = [@ EXCEPT
                    !.st = "call", !.ev = "read_message", !.res = "none",
                    !.conv = conversationId, !.msg = messageId, !.ack = FALSE,
                    !.ctype = "TEXT"]]
    /\ emitted' = {}
    /\ UNCHANGED <<restVars, userSockets, userStatus, rooms>>

RmCall(p) ==
    \E s \in Sockets :
        /\ Calling(s, "read_message")
        /\ \A q \in Procs : pc[q] = "idle"
        /\ MrStart(p, SocketUser(s), socks[s].conv, socks[s].msg)

\* Mutant: the events are emitted whatever the count.
SomethingMarked_Any(marked) == TRUE

\* result.marked > 0.
SomethingMarked(marked) == marked > 0

\* read_message: when something was marked, the reader's badge and the room's
\* read receipt are emitted; an error is logged.
RmRespond(p) ==
    \E s \in Sockets :
        /\ Calling(s, "read_message")
        /\ Respond(p)
        /\ IF ret.err = ""
             THEN /\ emitted' =
                       IF SomethingMarked(ret.marked)
                         THEN {[Event("conversation.updated", UserRoom(SocketUser(s)))
                                  EXCEPT !.conv = socks[s].conv, !.unread = ret.unread],
                               [Event("read_receipt", ConvRoom(socks[s].conv))
                                  EXCEPT !.conv = socks[s].conv,
                                         !.user = SocketUser(s)]}
                         ELSE {}
                  /\ socks' = [socks EXCEPT ![s] = Handled(s, "read_message", "ok")]
             ELSE /\ emitted' = {}
                  /\ socks' = [socks EXCEPT ![s] = Handled(s, "read_message", "failed")]

\* join_conversation arrives: the socket user's Participant row is looked up;
\* without one the join is refused.
JcStart(s, conversationId, ack) ==
    /\ Listening(s)
    /\ IF IsParticipant(conversationId, SocketUser(s))
         THEN /\ socks' = [socks EXCEPT ![s] = [@ EXCEPT
                              !.st = "jc_join", !.ev = "join_conversation",
                              !.res = "none", !.conv = conversationId, !.ack = ack,
                              !.msg = Null, !.ctype = "TEXT"]]
              /\ emitted' = {}
         ELSE /\ socks' = [socks EXCEPT ![s] =
                              [Handled(s, "join_conversation", "failed") EXCEPT
                                  !.conv = conversationId]]
              /\ emitted' = Ack(s, ack, FALSE)
    /\ UNCHANGED <<restVars, userSockets, userStatus, rooms>>

\* join_conversation: the socket joins the conversation's room.
JcJoin(s) ==
    /\ socks[s].st = "jc_join"
    /\ rooms' = rooms \cup {<<s, ConvRoom(socks[s].conv)>>}
    /\ emitted' = Ack(s, socks[s].ack, TRUE)
    /\ socks' = [socks EXCEPT ![s] =
                    [Handled(s, "join_conversation", "ok") EXCEPT !.conv = socks[s].conv]]
    /\ UNCHANGED <<restVars, userSockets, userStatus>>

\* leave_conversation.
LeaveConversation(s, conversationId) ==
    /\ Listening(s)
    /\ <<s, ConvRoom(conversationId)>> \in rooms
    /\ rooms' = rooms \ {<<s, ConvRoom(conversationId)>>}
    /\ socks' = [socks EXCEPT ![s] = Handled(s, "leave_conversation", "ok")]
    /\ emitted' = {}
    /\ UNCHANGED <<restVars, userSockets, userStatus>>

\* ------------------------------------------------------------ block / unblock
FriendKeys(a, b) == {k \in DOMAIN friendships : k = <<a, b>> \/ k = <<b, a>>}

\* blockFriend, first statements: the target is validated and the transaction
\* looks up the relationship row in either orientation.
BfStart(p, meId, targetUser) ==
    /\ Free(p)
    /\ LET c0 == [EmptyCall EXCEPT !.op = "blockFriend", !.user = meId, !.arg = targetUser]
       IN IF targetUser = meId THEN Fail(p, "blockFriend", "InvalidArgument")
          ELSE IF FriendKeys(meId, targetUser) = {}
            THEN Goto(p, "bf_write", c0)
          ELSE \E k \in FriendKeys(meId, targetUser) :
                  Goto(p, "bf_write", [c0 EXCEPT !.fkey = k, !.fstatus = friendships[k]])
    /\ UNCHANGED <<conversations, participants, messages, receipts, friendships,
                   fsLock, nextMsgId, nextConvId, now, nSent, nRead>>

\* blockFriend: an existing row is set BLOCKED (left alone if it was read as
\* BLOCKED), otherwise a BLOCKED row from the caller to the target is created;
\* commit.  The handler then calls the blockService module object as a
\* function, which throws, so the response is an error after the commit.
BfWrite(p) ==
    /\ At(p, "bf_write")
    /\ LET k == call[p].fkey
           new == <<call[p].user, call[p].arg>>
       IN IF k # NoKey /\ call[p].fstatus = "BLOCKED"
            THEN /\ Fail(p, "blockFriend", "TypeError")
                 /\ UNCHANGED friendships
          ELSE IF k # NoKey
            THEN /\ k \notin fsLock
                 /\ friendships' = [friendships EXCEPT ![k] = "BLOCKED"]
                 /\ Fail(p, "blockFriend", "TypeError")
          ELSE IF new \in DOMAIN friendships
            THEN /\ Fail(p, "blockFriend", "UniqueViolation")
                 /\ UNCHANGED friendships
          ELSE /\ friendships' = [kk \in DOMAIN friendships \cup {new} |->
                                     IF kk = new THEN "BLOCKED" ELSE friendships[kk]]
               /\ Fail(p, "blockFriend", "TypeError")
    /\ UNCHANGED <<conversations, participants, messages, receipts, fsLock,
                   nextMsgId, nextConvId, now, nSent, nRead>>

\* unblockFriend, first statements: a BLOCKED row in either orientation is
\* looked up; the call is refused when the target is that row's requester.
UbStart(p, meId, targetUser) ==
    /\ Free(p)
    /\ LET c0 == [EmptyCall EXCEPT !.op = "unblockFriend", !.user = meId, !.arg = targetUser]
           found == {k \in FriendKeys(meId, targetUser) : friendships[k] = "BLOCKED"}
       IN IF targetUser = meId THEN Fail(p, "unblockFriend", "InvalidArgument")
          ELSE IF found = {} THEN Fail(p, "unblockFriend", "NotFound")
          ELSE \E k \in found :
                  IF k[1] = targetUser /\ k[2] = meId
                    THEN Fail(p, "unblockFriend", "Forbidden")
                    ELSE Goto(p, "ub_write", [c0 EXCEPT !.fkey = k])
    /\ UNCHANGED <<conversations, participants, messages, receipts, friendships,
                   fsLock, nextMsgId, nextConvId, now, nSent, nRead>>

\* unblockFriend: the row is set ACCEPTED; the handler then fails on the same
\* call of the blockService module object.
UbWrite(p) ==
    /\ At(p, "ub_write")
    /\ call[p].fkey \notin fsLock
    /\ friendships' = [friendships EXCEPT ![call[p].fkey] = "ACCEPTED"]
    /\ Fail(p, "unblockFriend", "TypeError")
    /\ UNCHANGED <<conversations, participants, messages, receipts, fsLock,
                   nextMsgId, nextConvId, now, nSent, nRead>>

\* ------------------------------------------------------ friendship state machine
\* Mutant: only PostgreSQL's code is recognised.
IsUniqueViolation_PgOnly(code) == code = "23505"

\* Prisma's unique-constraint error, or PostgreSQL's.
IsUniqueViolation(code) == code \in {"P2002", "23505"}

\* Mutant: the unsorted pair.
SortPair_Unsorted(requesterId, addresseeId) == <<requesterId, addresseeId>>

\* [requesterId, addresseeId].sort(): the canonical pair of acceptFriendRequest.
SortPair(requesterId, addresseeId) ==
    IF requesterId <= addresseeId THEN <<requesterId, addresseeId>>
                                  ELSE <<addresseeId, requesterId>>

\* Mutant: the pair as given.
OrderPair_AsGiven(a, b) == <<a, b>>

\* orderPair: the canonical pair of getOrCreateConversation.
OrderPair(a, b) == IF a < b THEN <<a, b>> ELSE <<b, a>>

\* conversation.findUnique on participantAId_participantBId.
FindConversation(pair) == {cv \in conversations : cv.a = pair[1] /\ cv.b = pair[2]}

NewDirect(pair) == [id |-> nextConvId, type |-> "DIRECT", a |-> pair[1], b |-> pair[2],
                    lastMessageId |-> Null, updatedAt |-> now]

\* A DIRECT conversation row and the Participant rows of `members` are inserted.
CreateDirect(pair, members) ==
    /\ conversations' = conversations \cup {NewDirect(pair)}
    /\ participants' =
          [k \in DOMAIN participants \cup {<<nextConvId, u>> : u \in members} |->
              IF k \in DOMAIN participants THEN participants[k]
                                           ELSE [role |-> "MEMBER", unreadCount |-> 0]]
    /\ nextConvId' = nextConvId + 1

AcceptResult(key, userId, e) ==
    [Ok("acceptFriendRequest") EXCEPT !.user = userId, !.key = key, !.err = e]

\* acceptFriendRequest, first statement: the friendship is loaded and validated.
AcLoad(p, key, userId, via) ==
    /\ IF key \notin DOMAIN friendships
         THEN Finish(p, AcceptResult(key, userId, "NotFound"))
       ELSE IF key[2] # userId
         THEN Finish(p, AcceptResult(key, userId, "NotAuthorized"))
       ELSE IF friendships[key] # "PENDING"
         THEN Finish(p, AcceptResult(key, userId, "NotPending"))
       ELSE Goto(p, "ac_update", [EmptyCall EXCEPT !.op = "acceptFriendRequest",
                                     !.user = userId, !.fkey = key, !.ctype = via])
    /\ UNCHANGED <<conversations, participants, messages, receipts, friendships,
                   fsLock, nextMsgId, nextConvId, now, nSent, nRead>>

\* The accept endpoint calls acceptFriendRequest.
AcStart(p, key, userId) == Free(p) /\ AcLoad(p, key, userId, "acceptFriend")

\* addFriend's auto-accept calls acceptFriendRequest.
AcFind(p) == At(p, "ac_find") /\ AcLoad(p, call[p].fkey, call[p].user, "addFriend")

\* acceptFriendRequest: the transaction opens and sets the friendship ACCEPTED;
\* the row stays locked, and the write invisible, until the transaction ends.
AcUpdate(p) ==
    /\ At(p, "ac_update")
    /\ call[p].fkey \notin fsLock
    /\ fsLock' = fsLock \cup {call[p].fkey}
    /\ Goto(p, "ac_findconv", call[p])
    /\ UNCHANGED <<conversations, participants, messages, receipts, friendships,
                   nextMsgId, nextConvId, now, nSent, nRead>>

\* acceptFriendRequest: the canonical conversation is looked up; if it exists
\* the transaction commits and returns it.
AcFindConv(p) ==
    /\ At(p, "ac_findconv")
    /\ LET key == call[p].fkey
           found == FindConversation(SortPair(key[1], key[2]))
       IN IF found # {}
            THEN /\ friendships' = [friendships EXCEPT ![key] = "ACCEPTED"]
                 /\ fsLock' = fsLock \ {key}
                 /\ \E cv \in found :
                       Finish(p, [AcceptResult(key, call[p].user, "") EXCEPT
                                     !.conv = cv.id, !.path = "existing"])
            ELSE /\ Goto(p, "ac_create", call[p])
                 /\ UNCHANGED <<friendships, fsLock>>
    /\ UNCHANGED <<conversations, participants, messages, receipts, nextMsgId,
                   nextConvId, now, nSent, nRead>>

\* acceptFriendRequest: the conversation and both Participant rows are created
\* and the transaction commits; on a unique violation it rolls back and the
\* catch block takes over (any other error is rethrown).
AcCreate(p) ==
    /\ At(p, "ac_create")
    /\ LET key == call[p].fkey
           pair == SortPair(key[1], key[2])
       IN IF FindConversation(pair) # {}
            THEN /\ fsLock' = fsLock \ {key}
                 /\ IF IsUniqueViolation("P2002")
                      THEN Goto(p, "ac_requery", call[p])
                      ELSE Finish(p, AcceptResult(key, call[p].user, "P2002"))
                 /\ UNCHANGED <<conversations, participants, nextConvId, friendships>>
            ELSE /\ CreateDirect(pair, {key[1], key[2]})
                 /\ friendships' = [friendships EXCEPT ![key] = "ACCEPTED"]
                 /\ fsLock' = fsLock \ {key}
                 /\ Finish(p, [AcceptResult(key, call[p].user, "") EXCEPT
                                  !.conv = nextConvId, !.path = "created"])
    /\ UNCHANGED <<messages, receipts, nextMsgId, now, nSent, nRead>>

\* acceptFriendRequest, catch block: the conversation created concurrently is
\* re-queried.
AcRequery(p) ==
    /\ At(p, "ac_requery")
    /\ LET found == FindConversation(SortPair(call[p].fkey[1], call[p].fkey[2]))
       IN IF found = {} THEN Goto(p, "ac_reaccept", [call[p] EXCEPT !.conv = Null])
          ELSE \E cv \in found : Goto(p, "ac_reaccept", [call[p] EXCEPT !.conv = cv.id])
    /\ UNCHANGED <<conversations, participants, messages, receipts, friendships,
                   fsLock, nextMsgId, nextConvId, now, nSent, nRead>>

\* acceptFriendRequest, catch block: the friendship is set ACCEPTED outside any
\* transaction and the re-queried conversation is returned.
AcReaccept(p) ==
    /\ At(p, "ac_reaccept")
    /\ call[p].fkey \notin fsLock
    /\ friendships' = [friendships EXCEPT ![call[p].fkey] = "ACCEPTED"]
    /\ Finish(p, [AcceptResult(call[p].fkey, call[p].user, "") EXCEPT
                     !.conv = call[p].conv, !.path = "raced"])
    /\ UNCHANGED <<conversations, participants, messages, receipts, fsLock,
                   nextMsgId, nextConvId, now, nSent, nRead>>

AfResult(meId, friendId, e) ==
    [Ok("addFriend") EXCEPT !.user = meId, !.arg = friendId, !.err = e]

\* Mutant: the caller's own request is taken for one addressed to it.
AfAutoAccepts_Requester(k, meId) == friendships[k] = "PENDING" /\ k[1] = meId

\* The row found is a PENDING request addressed to the caller.
AfAutoAccepts(k, meId) == friendships[k] = "PENDING" /\ k[2] = meId

\* addFriend, first statements: the target is resolved by friend code, a
\* self-add refused, and the relationship looked up in either orientation.
\* Only ACCEPTED and PENDING rows are told apart; any other row is a conflict.
AfStart(p, meId, friendId) ==
    /\ Free(p)
    /\ LET c0 == [EmptyCall EXCEPT !.op = "addFriend", !.user = meId, !.arg = friendId]
       IN IF friendId = Null THEN Finish(p, AfResult(meId, friendId, "NotFound"))
          ELSE IF friendId = meId
            THEN Finish(p, AfResult(meId, friendId, "InvalidArgument"))
          ELSE IF FriendKeys(meId, friendId) = {} THEN Goto(p, "af_create", c0)
          ELSE \E k \in FriendKeys(meId, friendId) :
                  IF friendships[k] = "ACCEPTED"
                    THEN Finish(p, AfResult(meId, friendId, "Conflict"))
                  ELSE IF AfAutoAccepts(k, meId)
                    THEN Goto(p, "ac_find", [c0 EXCEPT !.fkey = k])
                  ELSE Finish(p, AfResult(meId, friendId, "Conflict"))
    /\ UNCHANGED <<conversations, participants, messages, receipts, friendships,
                   fsLock, nextMsgId, nextConvId, now, nSent, nRead>>

\* addFriend: a PENDING row from the caller to the target is created; on a
\* unique violation the catch block takes over.
AfCreate(p) ==
    /\ At(p, "af_create")
    /\ LET new == <<call[p].user, call[p].arg>>
       IN IF new \in DOMAIN friendships
            THEN /\ IF IsUniqueViolation("P2002")
                      THEN Goto(p, "af_requery", call[p])
                      ELSE Finish(p, AfResult(call[p].user, call[p].arg, "P2002"))
                 /\ UNCHANGED friendships
            ELSE /\ friendships' = [kk \in DOMAIN friendships \cup {new} |->
                                       IF kk = new THEN "PENDING" ELSE friendships[kk]]
                 /\ Finish(p, [AfResult(call[p].user, call[p].arg, "") EXCEPT
                                  !.key = new, !.path = "created"])
    /\ UNCHANGED <<conversations, participants, messages, receipts, fsLock,
                   nextMsgId, nextConvId, now, nSent, nRead>>

\* addFriend, catch block: the relationship is re-queried; a PENDING request
\* addressed to the caller goes on to be set ACCEPTED.
AfRequery(p) ==
    /\ At(p, "af_requery")
    /\ LET me == call[p].user
           found == FriendKeys(me, call[p].arg)
       IN IF found = {} THEN Finish(p, AfResult(me, call[p].arg, "Conflict"))
          ELSE \E k \in found :
                  IF friendships[k] # "ACCEPTED" /\ AfAutoAccepts(k, me)
                    THEN Goto(p, "af_accept", [call[p] EXCEPT !.fkey = k])
                    ELSE Finish(p, AfResult(me, call[p].arg, "Conflict"))
    /\ UNCHANGED <<conversations, participants, messages, receipts, friendships,
                   fsLock, nextMsgId, nextConvId, now, nSent, nRead>>

\* addFriend, catch block: the re-queried request is set ACCEPTED.
AfAccept(p) ==
    /\ At(p, "af_accept")
    /\ call[p].fkey \notin fsLock
    /\ friendships' = [friendships EXCEPT ![call[p].fkey] = "ACCEPTED"]
    /\ Finish(p, [AfResult(call[p].user, call[p].arg, "") EXCEPT
                     !.key = call[p].fkey, !.path = "accepted"])
    /\ UNCHANGED <<conversations, participants, messages, receipts, fsLock,
                   nextMsgId, nextConvId, now, nSent, nRead>>

\* Mutant: the addressee, for cancel too.
RequiredParty_Addressee(status, key) == key[2]

\* The party allowed to write `status`: the addressee declines, the requester
\* cancels.
RequiredParty(status, key) == IF status = "DECLINED" THEN key[2] ELSE key[1]

DcResult(status, key, userId, e) ==
    [Ok(IF status = "DECLINED" THEN "declineFriend" ELSE "cancelFriendRequest")
        EXCEPT !.user = userId, !.key = key, !.err = e]

\* declineFriend (status DECLINED, addressee only) and cancelFriendRequest
\* (status CANCELLED, requester only), first statement: the friendship is
\* loaded and validated.
DcStart(p, key, userId, status) ==
    /\ Free(p)
    /\ IF key \notin DOMAIN friendships
         THEN Finish(p, DcResult(status, key, userId, "NotFound"))
       ELSE IF RequiredParty(status, key) # userId
         THEN Finish(p, DcResult(status, key, userId, "NotAuthorized"))
       ELSE IF friendships[key] # "PENDING"
         THEN Finish(p, DcResult(status, key, userId, "NotPending"))
       ELSE Goto(p, "dc_update", [EmptyCall EXCEPT !.op = DcResult(status, key, userId, "").op,
                                     !.user = userId, !.fkey = key, !.fstatus = status])
    /\ UNCHANGED <<conversations, participants, messages, receipts, friendships,
                   fsLock, nextMsgId, nextConvId, now, nSent, nRead>>

\* declineFriend / cancelFriendRequest: the status is written.
DcUpdate(p) ==
    /\ At(p, "dc_update")
    /\ call[p].fkey \notin fsLock
    /\ friendships' = [friendships EXCEPT ![call[p].fkey] = call[p].fstatus]
    /\ Finish(p, DcResult(call[p].fstatus, call[p].fkey, call[p].user, ""))
    /\ UNCHANGED <<conversations, participants, messages, receipts, fsLock,
                   nextMsgId, nextConvId, now, nSent, nRead>>

\* ------------------------------------------------------ conversation directory
GetOrCreateResult(userId, otherId, e) ==
    [Ok("getOrCreateConversation") EXCEPT !.user = userId, !.arg = otherId, !.err = e]

\* getOrCreateConversation, first statements: self-pairing is refused and the
\* conversation of the ordered pair looked up.
GcStart(p, userId, otherId) ==
    /\ Free(p)
    /\ LET found == FindConversation(OrderPair(userId, otherId))
       IN IF otherId = Null \/ otherId = userId
            THEN Finish(p, GetOrCreateResult(userId, otherId, "InvalidArgument"))
          ELSE IF found # {}
            THEN \E cv \in found :
                    Finish(p, [GetOrCreateResult(userId, otherId, "") EXCEPT
                                  !.conv = cv.id, !.path = "existing"])
          ELSE Goto(p, "gc_create", [EmptyCall EXCEPT !.op = "getOrCreateConversation",
                                        !.user = userId, !.arg = otherId])
    /\ UNCHANGED <<conversations, participants, messages, receipts, friendships,
                   fsLock, nextMsgId, nextConvId, now, nSent, nRead>>

\* getOrCreateConversation: the conversation and both Participant rows are
\* created in one transaction; any error leads to the re-query.
GcCreate(p) ==
    /\ At(p, "gc_create")
    /\ LET pair == OrderPair(call[p].user, call[p].arg)
       IN IF FindConversation(pair) # {}
            THEN /\ Goto(p, "gc_requery", call[p])
                 /\ UNCHANGED <<conversations, participants, nextConvId>>
            ELSE /\ CreateDirect(pair, {pair[1], pair[2]})
                 /\ Finish(p, [GetOrCreateResult(call[p].user, call[p].arg, "") EXCEPT
                                  !.conv = nextConvId, !.path = "created"])
    /\ UNCHANGED <<messages, receipts, friendships, fsLock, nextMsgId, now,
                   nSent, nRead>>

\* getOrCreateConversation, catch block: the winner's row is fetched; the error
\* is rethrown if there is none.
GcRequery(p) ==
    /\ At(p, "gc_requery")
    /\ LET found == FindConversation(OrderPair(call[p].user, call[p].arg))
       IN IF found = {}
            THEN Finish(p, GetOrCreateResult(call[p].user, call[p].arg, "P2002"))
            ELSE \E cv \in found :
                    Finish(p, [GetOrCreateResult(call[p].user, call[p].arg, "") EXCEPT
                                  !.conv = cv.id, !.path = "raced"])
    /\ UNCHANGED <<conversations, participants, messages, receipts, friendships,
                   fsLock, nextMsgId, nextConvId, now, nSent, nRead>>

\* Mutant: every participant passes for an admin.
AdminRole_Any(role) == TRUE

\* role === 'ADMIN'.
AdminRole(role) == role = "ADMIN"

\* Mutant: one member with keys is enough.
ValidSignalKeys_Some(userIds) == userIds = {} \/ identityKeys \cap userIds # {}

\* validateSignalKeys: the number of IdentityKey rows of the given users equals
\* the number of users given.
ValidSignalKeys(userIds) ==
    userIds = {} \/ Cardinality(identityKeys \cap userIds) = Cardinality(userIds)

GroupSizeLimit == 100

\* new Set([ownerId, ...participantIds]).
Dedupe(ownerId, participantIds) ==
    {ownerId} \cup {participantIds[i] : i \in 1..Len(participantIds)}

\* createGroup: the ids are deduplicated with the owner included, every one
\* needs an IdentityKey, and at most GroupSizeLimit are allowed.
CgStart(p, ownerId, participantIds) ==
    /\ Free(p)
    /\ nextConvId \in ConvIds
    /\ LET uniqueIds == Dedupe(ownerId, participantIds)
       IN IF ~ValidSignalKeys(uniqueIds)
            THEN Fail(p, "createGroup", "NoKeys")
          ELSE IF Cardinality(uniqueIds) > GroupSizeLimit
            THEN Fail(p, "createGroup", "LimitExceeded")
          ELSE Goto(p, "cg_create", [EmptyCall EXCEPT !.op = "createGroup",
                                        !.user = ownerId, !.sel = uniqueIds])
    /\ UNCHANGED <<conversations, participants, messages, receipts, friendships,
                   fsLock, nextMsgId, nextConvId, now, nSent, nRead>>

\* createGroup: the GROUP conversation and its Participant rows are created in
\* one transaction, the owner as ADMIN and everybody else as MEMBER.
CgCreate(p) ==
    /\ At(p, "cg_create")
    /\ conversations' = conversations \cup
          {[id |-> nextConvId, type |-> "GROUP", a |-> Null, b |-> Null,
            lastMessageId |-> Null, updatedAt |-> now]}
    /\ participants' =
          [k \in DOMAIN participants \cup {<<nextConvId, u>> : u \in call[p].sel} |->
              IF k \in DOMAIN participants THEN participants[k]
              ELSE [role |-> IF k[2] = call[p].user THEN "ADMIN" ELSE "MEMBER",
                    unreadCount |-> 0]]
    /\ nextConvId' = nextConvId + 1
    /\ Finish(p, [Ok("createGroup") EXCEPT !.user = call[p].user, !.conv = nextConvId])
    /\ UNCHANGED <<messages, receipts, friendships, fsLock, nextMsgId, now,
                   nSent, nRead>>

\* addParticipant: the new user needs an IdentityKey; the caller must be a
\* participant of the conversation with the ADMIN role.
ApStart(p, convId, actorId, userId) ==
    /\ Free(p)
    /\ IF ~ValidSignalKeys({userId})
         THEN Fail(p, "addParticipant", "NoKeys")
       ELSE IF ~IsParticipant(convId, actorId)
         THEN Fail(p, "addParticipant", "Forbidden")
       ELSE IF ~AdminRole(participants[<<convId, actorId>>].role)
         THEN Fail(p, "addParticipant", "Forbidden")
       ELSE Goto(p, "ap_create", [EmptyCall EXCEPT !.op = "addParticipant",
                                     !.user = actorId, !.conv = convId, !.arg = userId])
    /\ UNCHANGED <<conversations, participants, messages, receipts, friendships,
                   fsLock, nextMsgId, nextConvId, now, nSent, nRead>>

\* addParticipant: createMany with skipDuplicates inserts the MEMBER row unless
\* the user is a participant already.
ApCreate(p) ==
    /\ At(p, "ap_create")
    /\ LET k == <<call[p].conv, call[p].arg>>
       IN IF ConvById(call[p].conv) = {}
            THEN /\ Fail(p, "addParticipant", "ForeignKey")
                 /\ UNCHANGED participants
          ELSE IF k \in DOMAIN participants
            THEN /\ Finish(p, [Ok("addParticipant") EXCEPT !.user = call[p].user,
                                  !.conv = call[p].conv, !.arg = call[p].arg])
                 /\ UNCHANGED participants
          ELSE /\ participants' =
                     [kk \in DOMAIN participants \cup {k} |->
                         IF kk = k THEN [role |-> "MEMBER", unreadCount |-> 0]
                                   ELSE participants[kk]]
               /\ Finish(p, [Ok("addParticipant") EXCEPT !.user = call[p].user,
                                !.conv = call[p].conv, !.arg = call[p].arg,
                                !.marked = 1])
    /\ UNCHANGED <<conversations, messages, receipts, friendships, fsLock,
                   nextMsgId, nextConvId, now, nSent, nRead>>

\* --------------------------------------------------------------- participants
\* removeParticipant, first statements: the actor must be a participant, and an
\* ADMIN unless removing itself.  The conversation's type is not looked at.
RpStart(p, convId, actorId, removeId) ==
    /\ Free(p)
    /\ nextConvId \in ConvIds
    /\ IF <<convId, actorId>> \notin DOMAIN participants
         THEN Fail(p, "removeParticipant", "Forbidden")
       ELSE IF actorId # removeId /\ ~AdminRole(participants[<<convId, actorId>>].role)
         THEN Fail(p, "removeParticipant", "Forbidden")
       ELSE Goto(p, "rp_delete", [EmptyCall EXCEPT !.op = "removeParticipant",
                                     !.user = actorId, !.conv = convId, !.arg = removeId])
    /\ UNCHANGED <<conversations, participants, messages, receipts, friendships,
                   fsLock, nextMsgId, nextConvId, now, nSent, nRead>>

\* removeParticipant: participant.deleteMany.
RpDelete(p) ==
    /\ At(p, "rp_delete")
    /\ LET k == <<call[p].conv, call[p].arg>>
       IN /\ participants' = [kk \in DOMAIN participants \ {k} |-> participants[kk]]
          /\ Goto(p, "rp_count",
                  [call[p] EXCEPT !.sel = IF k \in DOMAIN participants THEN {k} ELSE {}])
    /\ UNCHANGED <<conversations, messages, receipts, friendships, fsLock,
                   nextMsgId, nextConvId, now, nSent, nRead>>

\* removeParticipant: the remaining participants are counted; the call returns
\* unless none is left.
RpCount(p) ==
    /\ At(p, "rp_count")
    /\ IF ParticipantsOf(call[p].conv) = {}
         THEN Goto(p, "rp_cleanup", call[p])
         ELSE Finish(p, [Ok("removeParticipant") EXCEPT !.user = call[p].user,
                           !.conv = call[p].conv, !.marked = Cardinality(call[p].sel)])
    /\ UNCHANGED <<conversations, participants, messages, receipts, friendships,
                   fsLock, nextMsgId, nextConvId, now, nSent, nRead>>

\* removeParticipant: the empty conversation is deleted; its participants and
\* messages go with it (ON DELETE CASCADE) unless a receipt holds a message
\* (ON DELETE RESTRICT).
RpCleanup(p) ==
    /\ At(p, "rp_cleanup")
    /\ LET c == call[p].conv
           gone == {m \in messages : m.conv = c}
       IN IF \A cv \in conversations : cv.id # c
            THEN /\ Fail(p, "removeParticipant", "RecordNotFound")
                 /\ UNCHANGED <<conversations, participants, messages>>
          ELSE IF \E r \in receipts : \E m \in gone : r[1] = m.id
            THEN /\ Fail(p, "removeParticipant", "ForeignKey")
                 /\ UNCHANGED <<conversations, participants, messages>>
          ELSE /\ conversations' = {cv \in conversations : cv.id # c}
               /\ participants' = [kk \in {x \in DOMAIN participants : x[1] # c} |->
                                      participants[kk]]
               /\ messages' = messages \ gone
               /\ Finish(p, [Ok("removeParticipant") EXCEPT !.user = call[p].user,
                                !.conv = c, !.marked = Cardinality(call[p].sel)])
    /\ UNCHANGED <<receipts, friendships, fsLock, nextMsgId, nextConvId, now,
                   nSent, nRead>>

\* ------------------------------------------------------------ pagination codec
\* A timestamp is an instant `t` in one of the forms a caller can hand over: a
\* Date object, the ISO string toISOString() prints (24 characters), an ISO
\* string without milliseconds (20) or with one fractional digit (22), a number
\* of milliseconds, or a string no Date can be made of.  Ids are UUID strings.
TsForms == {"date", "iso", "short", "tenth", "epoch", "bad"}
Stamp(form, t) == [form |-> form, t |-> t]

\* No timestamp (undefined or null).
NoStamp == Stamp("none", 0)

\* JavaScript truthiness of a cursor's timestamp.
Truthy(v) == v.form # "none" /\ ~(v.form = "epoch" /\ v.t = 0)

\* JSON.stringify of a timestamp: a Date prints itself as its ISO string.
ToJSON(v) == IF v.form = "date" THEN Stamp("iso", v.t) ELSE v

\* new Date(v).toISOString(): the ISO string of the same instant; throws a
\* RangeError (form "thrown") on an invalid date.
ToISOString(v) == IF v.form = "bad" THEN Stamp("thrown", 0) ELSE Stamp("iso", v.t)

\* Characters of a timestamp in JSON text (quotes included).
TsChars(v) ==
    CASE v.form = "iso" -> 26
      [] v.form = "short" -> 22
      [] v.form = "tenth" -> 24
      [] v.form = "epoch" -> 13
      [] OTHER -> 5

\* Characters of {"id":"<uuid>","createdAt":<timestamp>}.
JsonChars(obj) == 58 + TsChars(obj.createdAt)

NoCursor == [kind |-> "null", id |-> Null, createdAt |-> NoStamp]
NoToken == [kind |-> "none", text |-> NoCursor, chars |-> 0, raw |-> Null]

\* A raw id handed over as the cursor parameter.
RawToken(id) == [NoToken EXCEPT !.kind = "raw", !.raw = id]

\* JSON.stringify({ id, createdAt }): the text and its length.
Stringify(x) ==
    LET obj == [kind |-> "json", id |-> x.id, createdAt |-> ToJSON(x.createdAt)]
    IN [NoToken EXCEPT !.kind = "text", !.text = obj, !.chars = JsonChars(obj)]

\* base64urlEncode: base64 of the text, '+' and '/' replaced, '=' stripped.
Base64urlEncode(str) ==
    LET groups == (str.chars + 2) \div 3
        padding == (3 - (str.chars % 3)) % 3
    IN [str EXCEPT !.kind = "token", !.chars = 4 * groups - padding]

\* Mutant: the two padding lengths swapped.
PadAdded_Swapped(rem) == IF rem = 2 THEN 1 ELSE IF rem = 3 THEN 2 ELSE 0

\* base64urlDecode: the '=' to put back for a length with remainder `rem`.
PadAdded(rem) == IF rem = 2 THEN 2 ELSE IF rem = 3 THEN 1 ELSE 0

\* base64urlDecode: null for a length no base64 text has; otherwise the bytes
\* the padded token stands for (of a raw id: bytes that are no JSON).
Base64urlDecode(token) ==
    IF token.kind = "raw" THEN [token EXCEPT !.kind = "text", !.chars = 27]
    ELSE IF token.chars % 4 = 1 THEN NoToken
    ELSE LET added == PadAdded(token.chars % 4)
         IN [token EXCEPT !.kind = "text",
                          !.chars = 3 * ((token.chars + added) \div 4) - added]

\* JSON.parse succeeds on the whole text of an object and on nothing else.
Parses(decoded) ==
    /\ decoded.kind = "text" /\ decoded.text.kind = "json"
    /\ decoded.chars = JsonChars(decoded.text)

\* parseCursorParam: { id, createdAt } from a token, { id } from a raw id (or
\* from a token that does not parse: kind "opaque"), null for none.
ParseCursorParam(cursorParam) ==
    IF cursorParam.kind = "none" THEN NoCursor
    ELSE LET decoded == Base64urlDecode(cursorParam)
             raw == IF cursorParam.kind = "raw"
                      THEN [NoCursor EXCEPT !.kind = "id", !.id = cursorParam.raw]
                      ELSE [NoCursor EXCEPT !.kind = "opaque"]
         IN IF ~Parses(decoded) THEN raw
            ELSE IF decoded.text.id = Null THEN NoCursor
            ELSE IF ~Truthy(decoded.text.createdAt)
              THEN [NoCursor EXCEPT !.kind = "id", !.id = decoded.text.id]
            ELSE IF ToISOString(decoded.text.createdAt).form = "thrown" THEN raw
            ELSE [kind |-> "full", id |-> decoded.text.id,
                  createdAt |-> ToISOString(decoded.text.createdAt)]

\* makeCursorToken: throws (kind "thrown") unless both fields are given.
MakeCursorToken(x) ==
    IF x.id = Null \/ ~Truthy(x.createdAt) THEN [NoToken EXCEPT !.kind = "thrown"]
    ELSE Base64urlEncode(Stringify(x))

\* A caller encodes the cursor it holds.
Encode ==
    /\ pager.kind = "cursor"
    /\ pager' = [pager EXCEPT !.kind = MakeCursorToken(pager.x).kind,
                              !.token = MakeCursorToken(pager.x)]
    /\ UNCHANGED <<conversations, participants, messages, receipts, friendships,
                   fsLock, nextMsgId, nextConvId, now, pc, call, ret, nSent, nRead,
                   sockVars, keyVars, tokVars>>

\* The token comes back as a cursor parameter and is parsed.
Decode ==
    /\ pager.kind = "token"
    /\ pager' = [pager EXCEPT !.kind = ParseCursorParam(pager.token).kind,
                              !.parsed = ParseCursorParam(pager.token)]
    /\ UNCHANGED <<conversations, participants, messages, receipts, friendships,
                   fsLock, nextMsgId, nextConvId, now, pc, call, ret, nSent, nRead,
                   sockVars, keyVars, tokVars>>

\* ------------------------------------------------------------------ pagination
\* Mutant: rows of the cursor's own timestamp are never older.
OlderThanCursor_NoTieBreak(ts, id, cursorObj) == ts < cursorObj.createdAt.t

\* olderThanCursorWhere: the row (ts, id) comes after the cursor in descending
\* (timestamp, id) order.
OlderThanCursor(ts, id, cursorObj) ==
    \/ ts < cursorObj.createdAt.t
    \/ ts = cursorObj.createdAt.t /\ id < cursorObj.id

\* The first row of `rows` in descending (timestamp, id) order; rows are <<ts, id>>.
Newest(rows) ==
    CHOOSE r \in rows : \A q \in rows : q[1] < r[1] \/ (q[1] = r[1] /\ q[2] <= r[2])

RECURSIVE TakeDesc(_, _)
\* findMany ... orderBy [{ts: 'desc'}, {id: 'desc'}], take n.
TakeDesc(rows, n) ==
    IF n = 0 \/ rows = {} THEN <<>>
    ELSE <<Newest(rows)>> \o TakeDesc(rows \ {Newest(rows)}, n - 1)

\* The ids of the first `limit` rows fetched.
PageIds(fetched, limit) ==
    [i \in 1..(IF Len(fetched) < limit THEN Len(fetched) ELSE limit) |-> fetched[i][2]]

\* nextCursor: the token of the last row of the page if one more row was
\* fetched, otherwise none.
NextCursor(fetched, limit) ==
    IF Len(fetched) > limit
      THEN MakeCursorToken([kind |-> "full", id |-> fetched[limit][2],
                            createdAt |-> Stamp("date", fetched[limit][1])])
      ELSE NoToken

\* getMessages: the keyset cursor of the request -- the parsed token, or for a
\* raw id the row it names, or none.
MessageCursor(parsed) ==
    IF parsed.kind = "full" THEN parsed
    ELSE IF parsed.kind = "id" /\ MsgById(parsed.id) # {}
      THEN [kind |-> "full", id |-> parsed.id,
            createdAt |-> Stamp("date", (CHOOSE m \in MsgById(parsed.id) : TRUE).createdAt)]
    ELSE NoCursor

\* getMessages: limit + 1 messages of the conversation after the cursor.
FetchMessages(convId, cursorParam, limit) ==
    LET cur == MessageCursor(ParseCursorParam(cursorParam))
        rows == {<<m.createdAt, m.id>> : m \in
                   {mm \in messages : /\ mm.conv = convId
                                       /\ cur.kind = "full" =>
                                            OlderThanCursor(mm.createdAt, mm.id, cur)}}
    IN TakeDesc(rows, limit + 1)

\* The client appends a page and keeps its nextCursor.
Paged(kind, fetched) ==
    [pager EXCEPT !.kind = IF Len(fetched) > pager.limit THEN kind ELSE kind \o "_end",
                  !.pages = pager.pages \o PageIds(fetched, pager.limit),
                  !.token = NextCursor(fetched, pager.limit)]

\* getMessages without cursor: a participant starts paging.
GmFirst(userId, convId, limit) ==
    /\ pager.kind = "none"
    /\ \A q \in Procs : pc[q] # "done"
    /\ \E cv \in ConvById(convId) :
          userId \in {cv.a, cv.b} \/ IsParticipant(convId, userId)
    /\ LET fetched == FetchMessages(convId, NoToken, limit)
       IN pager' = [NoPager EXCEPT
                      !.kind = IF Len(fetched) > limit THEN "messages" ELSE "messages_end",
                      !.user = userId, !.conv = convId, !.limit = limit,
                      !.snapshot = {m.id : m \in {mm \in messages : mm.conv = convId}},
                      !.pages = PageIds(fetched, limit),
                      !.token = NextCursor(fetched, limit)]
    /\ UNCHANGED <<conversations, participants, messages, receipts, friendships,
                   fsLock, nextMsgId, nextConvId, now, pc, call, ret, nSent, nRead,
                   sockVars, keyVars, tokVars>>

\* getMessages with the nextCursor of the previous page.
GmNext ==
    /\ pager.kind = "messages"
    /\ \A q \in Procs : pc[q] # "done"
    /\ pager' = Paged("messages", FetchMessages(pager.conv, pager.token, pager.limit))
    /\ UNCHANGED <<conversations, participants, messages, receipts, friendships,
                   fsLock, nextMsgId, nextConvId, now, pc, call, ret, nSent, nRead,
                   sockVars, keyVars, tokVars>>

\* listConversations: the keyset predicate on (updatedAt, id).
ConvOlderThanCursor(updatedAt, id, cursorObj) ==
    \/ updatedAt < cursorObj.createdAt.t
    \/ updatedAt = cursorObj.createdAt.t /\ id < cursorObj.id

\* listConversations: the keyset cursor of the request -- the parsed token, or
\* for a raw id the conversation it names, or none.
ConversationCursor(parsed) ==
    IF parsed.kind = "full" THEN parsed
    ELSE IF parsed.kind = "id" /\ ConvById(parsed.id) # {}
      THEN [kind |-> "full", id |-> parsed.id,
            createdAt |-> Stamp("date", (CHOOSE cv \in ConvById(parsed.id) : TRUE).updatedAt)]
    ELSE NoCursor

\* listConversations: limit + 1 of the user's conversations (as participantA,
\* participantB or through a Participant row) after the cursor.
FetchConversations(userId, cursorParam, limit) ==
    LET cur == ConversationCursor(ParseCursorParam(cursorParam))
        mine == {cv \in conversations :
                    \/ cv.a = userId \/ cv.b = userId
                    \/ IsParticipant(cv.id, userId)}
        rows == {<<cv.updatedAt, cv.id>> : cv \in
                   {c \in mine : cur.kind = "full" =>
                                    ConvOlderThanCursor(c.updatedAt, c.id, cur)}}
    IN TakeDesc(rows, limit + 1)

\* listConversations: nextCursor is made of the last conversation of the page.
ConvNextCursor(fetched, limit) ==
    IF Len(fetched) > limit
      THEN MakeCursorToken([kind |-> "full", id |-> fetched[limit][2],
                            createdAt |-> Stamp("date", fetched[limit][1])])
      ELSE NoToken

\* listConversations without cursor: a user starts paging.
LcFirst(userId, limit) ==
    /\ pager.kind = "none"
    /\ \A q \in Procs : pc[q] # "done"
    /\ LET fetched == FetchConversations(userId, NoToken, limit)
       IN pager' = [NoPager EXCEPT
                      !.kind = IF Len(fetched) > limit THEN "conversations"
                                                       ELSE "conversations_end",
                      !.user = userId, !.limit = limit,
                      !.snapshot = {cv.id : cv \in
                                      {c \in conversations :
                                          \/ c.a = userId \/ c.b = userId
                                          \/ IsParticipant(c.id, userId)}},
                      !.pages = PageIds(fetched, limit),
                      !.token = ConvNextCursor(fetched, limit)]
    /\ UNCHANGED <<conversations, participants, messages, receipts, friendships,
                   fsLock, nextMsgId, nextConvId, now, pc, call, ret, nSent, nRead,
                   sockVars, keyVars, tokVars>>

\* listConversations with the nextCursor of the previous page.
LcNext ==
    /\ pager.kind = "conversations"
    /\ \A q \in Procs : pc[q] # "done"
    /\ LET fetched == FetchConversations(pager.user, pager.token, pager.limit)
       IN pager' = [pager EXCEPT
                      !.kind = IF Len(fetched) > pager.limit THEN "conversations"
                                                             ELSE "conversations_end",
                      !.pages = pager.pages \o PageIds(fetched, pager.limit),
                      !.token = ConvNextCursor(fetched, pager.limit)]
    /\ UNCHANGED <<conversations, participants, messages, receipts, friendships,
                   fsLock, nextMsgId, nextConvId, now, pc, call, ret, nSent, nRead,
                   sockVars, keyVars, tokVars>>

\* ------------------------------------------------------------ key store
KeyIds == {1, 2}

\* A key-store call returns `result`.
KsFinish(p, result) == /\ pc' = [pc EXCEPT ![p] = "done"]
                       /\ call' = [call EXCEPT ![p] = EmptyCall]
                       /\ ret' = result
                       /\ UNCHANGED <<pager, sockVars, tokVars>>

KsGoto(p, label, fields) == /\ pc' = [pc EXCEPT ![p] = label]
                            /\ call' = [call EXCEPT ![p] = fields]
                            /\ UNCHANGED <<ret, pager, sockVars, tokVars>>

\* The user's OneTimePreKey rows.
PreKeysOf(userId) == {k \in oneTimePreKeys : k[1] = userId}

\* uploadKeys, one transaction: the identity key and the signed pre-key are
\* upserted; of the one-time pre-keys those whose keyId the user does not
\* have yet are inserted.
UkUpload(p, userId, hasIdentity, hasSigned, keyIds) ==
    /\ Free(p)
    /\ keyIds # {} => uploads < MaxUploads
    /\ identityKeys' = IF hasIdentity THEN identityKeys \cup {userId} ELSE identityKeys
    /\ signedPreKeys' = IF hasSigned THEN signedPreKeys \cup {userId} ELSE signedPreKeys
    /\ LET existingIds == {k[2] : k \in {e \in PreKeysOf(userId) : e[2] \in keyIds}}
           newKeys == keyIds \ existingIds
       IN oneTimePreKeys' = oneTimePreKeys \cup
                               {<<userId, k, uploads + 1>> : k \in newKeys}
    /\ uploads' = IF keyIds # {} THEN uploads + 1 ELSE uploads
    /\ KsFinish(p, [Ok("uploadKeys") EXCEPT !.user = userId])
    /\ UNCHANGED <<conversations, participants, messages, receipts, friendships,
                   fsLock, nextMsgId, nextConvId, now, nSent, nRead, otpReturned>>

\* findFirst orderBy keyId asc.
FirstPreKey(rows) == CHOOSE r \in rows : \A q \in rows : r[2] <= q[2]

\* getPreKeyBundle: the identity key and signed pre-key are required; the
\* user's one-time pre-key with the lowest keyId is looked up.
GbStart(p, targetUserId) ==
    /\ Free(p)
    /\ LET c0 == [EmptyCall EXCEPT !.op = "getPreKeyBundle", !.user = targetUserId]
       IN IF targetUserId \notin identityKeys \/ targetUserId \notin signedPreKeys
            THEN KsFinish(p, [Ok("getPreKeyBundle") EXCEPT !.err = "NoKeys"])
          ELSE IF PreKeysOf(targetUserId) = {}
            THEN KsFinish(p, [Ok("getPreKeyBundle") EXCEPT !.user = targetUserId])
          ELSE KsGoto(p, "gb_delete",
                      [c0 EXCEPT !.fkey = FirstPreKey(PreKeysOf(targetUserId))])
    /\ UNCHANGED <<conversations, participants, messages, receipts, friendships,
                   fsLock, nextMsgId, nextConvId, now, nSent, nRead, keyVars, tokVars>>

\* Mutant: deleting a row that is gone is not an error (deleteMany).
DeleteThrows_Never(present) == FALSE

\* oneTimePreKey.delete throws when the row no longer exists.
DeleteThrows(present) == ~present

\* getPreKeyBundle: the row found is deleted by id and returned in the bundle.
GbDelete(p) ==
    /\ At(p, "gb_delete")
    /\ LET row == call[p].fkey
       IN IF DeleteThrows(row \in oneTimePreKeys)
            THEN /\ KsFinish(p, [Ok("getPreKeyBundle") EXCEPT !.err = "RecordNotFound"])
                 /\ UNCHANGED <<oneTimePreKeys, otpReturned>>
            ELSE /\ oneTimePreKeys' = oneTimePreKeys \ {row}
                 /\ otpReturned' = Append(otpReturned, row)
                 /\ KsFinish(p, [Ok("getPreKeyBundle") EXCEPT !.user = row[1],
                                                             !.key = row])
    /\ UNCHANGED <<conversations, participants, messages, receipts, friendships,
                   fsLock, nextMsgId, nextConvId, now, nSent, nRead,
                   identityKeys, signedPreKeys, uploads>>

\* ------------------------------------------------------------ conversation summary
\* The raw "latest message" query: the conversation's message with the
\* greatest (createdAt, id), or none.
LastMessage(convId) ==
    LET rows == {<<m.createdAt, m.id>> : m \in {ms \in messages : ms.conv = convId}}
    IN IF rows = {} THEN Null ELSE Newest(rows)[2]

\* The raw "unread" query: messages of the conversation from somebody else
\* without a receipt of the user.
UnreadRows(convId, userId) ==
    {m \in messages : /\ m.conv = convId
                      /\ m.sender # userId
                      /\ <<m.id, userId>> \notin receipts}

\* What both controllers attach to a conversation.
Summary(op, convId, userId) ==
    [Ok(op) EXCEPT !.conv = convId, !.user = userId, !.arg = LastMessage(convId),
                   !.unread = Cardinality(UnreadRows(convId, userId))]

\* getConversation: the conversation, the caller's membership (participantA/B
\* or a Participant row), then lastMessage and unreadCount.
GetConversation(p, userId, convId) ==
    /\ Free(p)
    /\ IF ConvById(convId) = {} THEN Fail(p, "getConversation", "NotFound")
       ELSE IF \A cv \in ConvById(convId) :
                 userId \notin {cv.a, cv.b} /\ ~IsParticipant(convId, userId)
         THEN Fail(p, "getConversation", "Forbidden")
       ELSE Finish(p, Summary("getConversation", convId, userId))
    /\ UNCHANGED <<conversations, participants, messages, receipts, friendships,
                   fsLock, nextMsgId, nextConvId, now, nSent, nRead>>

\* listConversations: the entry of one conversation of the first page.
ListEntry(p, userId, convId, limit) ==
    /\ Free(p)
    /\ LET page == PageIds(FetchConversations(userId, NoToken, limit), limit)
       IN /\ \E i \in 1..Len(page) : page[i] = convId
          /\ Finish(p, Summary("listConversations", convId, userId))
    /\ UNCHANGED <<conversations, participants, messages, receipts, friendships,
                   fsLock, nextMsgId, nextConvId, now, nSent, nRead>>

\* ---------------------------------------------------------- ledger specification
\* The store holds the DIRECT conversation of users 1 and 2 with both
\* Participant rows, as getOrCreateConversation leaves it; user 3 is an outsider.
DirectConv == [id |-> 1, type |-> "DIRECT", a |-> 1, b |-> 2,
               lastMessageId |-> Null, updatedAt |-> 0]

Init ==
    /\ conversations = {DirectConv}
    /\ participants = [k \in {<<1, 1>>, <<1, 2>>} |-> [role |-> "MEMBER", unreadCount |-> 0]]
    /\ messages = {}
    /\ receipts = {}
    /\ friendships = <<>>
    /\ fsLock = {}
    /\ nextMsgId = 1
    /\ nextConvId = 2
    /\ now = 0
    /\ pc = [p \in Procs |-> "idle"]
    /\ call = [p \in Procs |-> EmptyCall]
    /\ ret = NoRet
    /\ nSent = [u \in Users |-> 0]
    /\ nRead = [u \in Users |-> 0]
    /\ KeyInit
    /\ TokInit
    /\ SockInit
    /\ pager = NoPager

\* The createMessage requests issued: every user sending either content type to
\* the conversation, and one request per rejected shape (no body, a missing
\* conversation, a replyToId that may not exist).
CmRequests ==
    {<<u, 1, t, TRUE, Null>> : u \in Users, t \in ContentTypes}
      \cup {<<1, 1, "TEXT", FALSE, Null>>, <<1, 2, "TEXT", TRUE, Null>>,
            <<2, 1, "TEXT", TRUE, 2>>}

SendStep(p) ==
    \/ \E r \in CmRequests : CmStart(p, r[1], r[2], r[3], r[4], r[5])
    \/ CmBlocked(p)
    \/ CmInsert(p)
    \/ CmCommit(p)

ReadStep(p) ==
    \/ \E u \in Users, m \in {Null} \cup MsgIds : MrStart(p, u, 1, m)
    \/ MrSelect(p)
    \/ MrZero(p)
    \/ MrWrite(p)

EditStep(p) ==
    \/ \E m \in MsgIds, u \in {1, 2}, b \in BOOLEAN : EdStart(p, m, u, b)
    \/ EdUpdate(p)

DeleteStep(p) ==
    \/ \E m \in MsgIds, u \in {1, 2} : DlStart(p, m, u)
    \/ DlDelete(p)

BlockStep(p) ==
    \/ \E u \in {1, 2}, t \in {1, 2} : BfStart(p, u, t)
    \/ BfWrite(p)
    \/ \E u \in {1, 2}, t \in {1, 2} : UbStart(p, u, t)
    \/ UbWrite(p)

\* Concurrent senders, readers and deleters of the conversation.
Next ==
    \/ \E p \in Workers : SendStep(p) \/ ReadStep(p) \/ Return(p)
    \/ Tick

Spec == Init /\ [][Next]_vars

\* Calls issued one after the other: a handler steps only while no other is
\* in flight.
SeqNext ==
    \/ \E p \in Workers :
          /\ \A q \in Procs \ {p} : pc[q] = "idle"
          /\ SendStep(p) \/ ReadStep(p) \/ EditStep(p) \/ DeleteStep(p) \/ Return(p)
    \/ Tick

SeqSpec == Init /\ [][SeqNext]_vars

\* Messages are sent and read; in between, users look at their conversations.
SummaryNext ==
    \/ SeqNext
    \/ \E p \in Workers, u \in Users, c \in ConvIds :
          /\ \A q \in Procs : pc[q] = "idle"
          /\ GetConversation(p, u, c) \/ (\E limit \in {1, 2} : ListEntry(p, u, c, limit))

SummarySpec == Init /\ [][SummaryNext]_vars

\* Concurrent senders and block/unblock calls.
BlockNext ==
    \/ \E p \in Workers : SendStep(p) \/ BlockStep(p) \/ Return(p)
    \/ Tick

BlockSpec == Init /\ [][BlockNext]_vars

\* ------------------------------------------------------- friendship specification
\* An empty store: users 1 and 2 befriend, block and open their conversation.
FriendInit ==
    /\ conversations = {}
    /\ participants = <<>>
    /\ messages = {}
    /\ receipts = {}
    /\ friendships = <<>>
    /\ fsLock = {}
    /\ nextMsgId = 1
    /\ nextConvId = 1
    /\ now = 0
    /\ pc = [p \in Procs |-> "idle"]
    /\ call = [p \in Procs |-> EmptyCall]
    /\ ret = NoRet
    /\ nSent = [u \in Users |-> 0]
    /\ nRead = [u \in Users |-> 0]
    /\ KeyInit
    /\ TokInit
    /\ SockInit
    /\ pager = NoPager

FriendRows == {<<1, 2>>, <<2, 1>>}

\* acceptFriendRequest past its entry, whoever called it.
AcceptRest(p) ==
    \/ AcFind(p)
    \/ AcUpdate(p)
    \/ AcFindConv(p)
    \/ AcCreate(p)
    \/ AcRequery(p)
    \/ AcReaccept(p)

AcceptStep(p) ==
    \/ \E k \in FriendRows, u \in Members : AcStart(p, k, u)
    \/ AcceptRest(p)

\* addFriend up to its catch block's re-query.
AddEntry(p) ==
    \/ \E u \in Members, f \in Members \cup {Null} : AfStart(p, u, f)
    \/ AfCreate(p)
    \/ AfRequery(p)

AddStep(p) == AddEntry(p) \/ AfAccept(p)

DeclineStep(p) ==
    \/ \E k \in FriendRows, u \in Members, st \in {"DECLINED", "CANCELLED"} :
          DcStart(p, k, u, st)
    \/ DcUpdate(p)

DirectoryStep(p) ==
    \/ \E u \in Members, o \in Members \cup {Null} : GcStart(p, u, o)
    \/ GcCreate(p)
    \/ GcRequery(p)

\* Two handlers serve every endpoint.  AfAccept is out of their reach: it needs
\* the caller's second addFriend and the friend's addFriend both in flight
\* while the first waits to create its row (see AddRaceSpec).
FriendNext ==
    \E p \in Workers : \/ AcceptStep(p) \/ AddEntry(p) \/ DeclineStep(p)
                       \/ DirectoryStep(p) \/ BlockStep(p) \/ Return(p)

FriendSpec == FriendInit /\ [][FriendNext]_vars

RemoveStep(p) ==
    \/ \E c \in ConvIds, u, r \in Members : RpStart(p, c, u, r)
    \/ RpDelete(p)
    \/ RpCount(p)
    \/ RpCleanup(p)

\* Befriending and opening the conversation, against participants leaving it.
MemberNext ==
    \E p \in Workers : \/ AcceptStep(p) \/ AddEntry(p) \/ DirectoryStep(p)
                       \/ RemoveStep(p) \/ Return(p)

MemberSpec == FriendInit /\ [][MemberNext]_vars

\* Requests between users 1 and 2 in either direction, accepted or not; user 1
\* is the only one to call blockFriend; either user calls unblockFriend.
UnblockNext ==
    \E p \in Workers : \/ AddEntry(p) \/ AcceptStep(p)
                       \/ BfStart(p, 1, 2) \/ BfWrite(p)
                       \/ \E u, t \in Members : UbStart(p, u, t)
                       \/ UbWrite(p)
                       \/ Return(p)

UnblockSpec == FriendInit /\ [][UnblockNext]_vars

\* ------------------------------------------------------- message paging specification
OldMsgIds == {11, 12, 13}
PageLimits == {1, 2}

\* The DIRECT conversation of users 1 and 2 holds three messages from user 1,
\* their ids (UUIDs) in no relation to their timestamps.
PageInit ==
    /\ \E createdAt \in [OldMsgIds -> Times] :
          /\ messages = {[id |-> i, conv |-> 1, sender |-> 1, ctype |-> "TEXT",
                          createdAt |-> createdAt[i], edited |-> FALSE] : i \in OldMsgIds}
          /\ now \in Times
          /\ \A i \in OldMsgIds : createdAt[i] <= now
          /\ \E i \in OldMsgIds :
                /\ \A j \in OldMsgIds : createdAt[j] <= createdAt[i]
                /\ conversations = {[DirectConv EXCEPT !.lastMessageId = i,
                                                        !.updatedAt = createdAt[i]]}
    /\ participants = [k \in {<<1, 1>>, <<1, 2>>} |->
                         [role |-> "MEMBER",
                          unreadCount |-> IF k[2] = 2 THEN Cardinality(OldMsgIds) ELSE 0]]
    /\ receipts = {}
    /\ friendships = <<>>
    /\ fsLock = {}
    /\ nextMsgId = 1
    /\ nextConvId = 2
    /\ pc = [p \in Procs |-> "idle"]
    /\ call = [p \in Procs |-> EmptyCall]
    /\ ret = NoRet
    /\ nSent = [u \in Users |-> IF u = 2 THEN Cardinality(OldMsgIds) ELSE 0]
    /\ nRead = [u \in Users |-> 0]
    /\ KeyInit
    /\ TokInit
    /\ SockInit
    /\ pager = NoPager

\* A participant pages through the conversation while messages are sent.
PageNext ==
    \/ \E p \in Workers : SendStep(p) \/ Return(p)
    \/ Tick
    \/ \E u \in Members, limit \in PageLimits : GmFirst(u, 1, limit)
    \/ GmNext

PageSpec == PageInit /\ [][PageNext]_vars

\* -------------------------------------------------- conversation paging specification
\* User 1 has a DIRECT conversation with user 2 and one with user 3.
ListInit ==
    /\ conversations = {DirectConv, [DirectConv EXCEPT !.id = 2, !.b = 3]}
    /\ participants = [k \in {<<1, 1>>, <<1, 2>>, <<2, 1>>, <<2, 3>>} |->
                         [role |-> "MEMBER", unreadCount |-> 0]]
    /\ messages = {}
    /\ receipts = {}
    /\ friendships = <<>>
    /\ fsLock = {}
    /\ nextMsgId = 1
    /\ nextConvId = 3
    /\ now = 0
    /\ pc = [p \in Procs |-> "idle"]
    /\ call = [p \in Procs |-> EmptyCall]
    /\ ret = NoRet
    /\ nSent = [u \in Users |-> 0]
    /\ nRead = [u \in Users |-> 0]
    /\ KeyInit
    /\ TokInit
    /\ SockInit
    /\ pager = NoPager

\* User 1 pages through its conversations while messages are sent.
ListNext ==
    \/ \E p \in Workers : SendStep(p) \/ Return(p)
    \/ Tick
    \/ \E limit \in PageLimits : LcFirst(1, limit)
    \/ LcNext

ListSpec == ListInit /\ [][ListNext]_vars

\* ------------------------------------------------------------ socket specifications
\* Users 1 and 2 share the DIRECT conversation; the sockets in `open` are
\* connected.
Connected(open) ==
    /\ conversations = {DirectConv}
    /\ participants = [k \in {<<1, 1>>, <<1, 2>>} |-> [role |-> "MEMBER", unreadCount |-> 0]]
    /\ messages = {}
    /\ receipts = {}
    /\ friendships = <<>>
    /\ fsLock = {}
    /\ nextMsgId = 1
    /\ nextConvId = 2
    /\ now = 0
    /\ pc = [p \in Procs |-> "idle"]
    /\ call = [p \in Procs |-> EmptyCall]
    /\ ret = NoRet
    /\ nSent = [u \in Users |-> 0]
    /\ nRead = [u \in Users |-> 0]
    /\ KeyInit
    /\ TokInit
    /\ pager = NoPager
    /\ userSockets = [u \in Users |-> {s \in open : SocketUser(s) = u}]
    /\ userStatus = [u \in Users |->
                       [status |-> IF \E s \in open : SocketUser(s) = u
                                     THEN "ONLINE" ELSE "OFFLINE",
                        lastSeen |-> Never]]
    /\ socks = [s \in Sockets |->
                  IF s \in open THEN [ClosedSocket EXCEPT !.st = "open", !.trigger = "first"]
                                ELSE ClosedSocket]
    /\ rooms = {<<s, UserRoom(SocketUser(s))>> : s \in open}
    /\ emitted = {}

\* One device of user 1 and one of user 2 are connected.
RoomInit == Connected({1, 3})

\* One device of user 1 is connected; user 2 uses the REST endpoints.
SocketInit == Connected({1})

JoinStep(s) ==
    \/ \E c \in ConvIds, ack \in BOOLEAN : JcStart(s, c, ack)
    \/ JcJoin(s)
    \/ \E c \in ConvIds : LeaveConversation(s, c)

\* Sockets join and leave rooms while participants are removed over REST.
RoomNext ==
    \/ \E s \in Sockets : JoinStep(s)
    \/ \E p \in Workers : RemoveStep(p) \/ Return(p)

RoomSpec == RoomInit /\ [][RoomNext]_vars

\* The messages clients send: on either path, of either type, to either
\* conversation id.
SocketSend(s) ==
    \E c \in ConvIds, t \in ContentTypes, valid, ack \in BOOLEAN :
        SmReceive(s, c, t, valid, ack)

\* REST sendMessage: the request reaches createMessage.
RestSend(p) ==
    /\ Quiet
    /\ \E r \in CmRequests : CmStart(p, r[1], r[2], r[3], r[4], r[5])

\* Socket events and REST sends, handled one at a time.
SocketNext ==
    \/ \E s \in Sockets :
          \/ SocketSend(s)
          \/ \E m \in MsgIds, valid \in BOOLEAN : EmReceive(s, m, valid)
          \/ \E m \in MsgIds : DmReceive(s, m)
          \/ \E c \in ConvIds, m \in MsgIds \cup {Null} : RmReceive(s, c, m)
          \/ \E c \in ConvIds, ack \in BOOLEAN : JcStart(s, c, ack)
          \/ JcJoin(s)
    \/ \E p \in Workers :
          \/ SmCall(p) \/ RestSend(p) \/ CmBlocked(p) \/ CmInsert(p) \/ CmCommit(p)
          \/ SmRespond(p) \/ RestRespond(p)
          \/ EmCall(p) \/ EdUpdate(p) \/ EmRespond(p)
          \/ DmCall(p) \/ DlDelete(p) \/ DmRespond(p)
          \/ RmCall(p) \/ MrSelect(p) \/ MrZero(p) \/ MrWrite(p) \/ RmRespond(p)

SocketSpec == SocketInit /\ [][SocketNext]_vars

\* ------------------------------------------------------------ key store specification
\* Nobody has uploaded anything yet.
KeyStoreInit ==
    /\ conversations = {}
    /\ participants = <<>>
    /\ messages = {}
    /\ receipts = {}
    /\ friendships = <<>>
    /\ fsLock = {}
    /\ nextMsgId = 1
    /\ nextConvId = 1
    /\ now = 0
    /\ pc = [p \in Procs |-> "idle"]
    /\ call = [p \in Procs |-> EmptyCall]
    /\ ret = NoRet
    /\ nSent = [u \in Users |-> 0]
    /\ nRead = [u \in Users |-> 0]
    /\ pager = NoPager
    /\ SockInit
    /\ identityKeys = {}
    /\ signedPreKeys = {}
    /\ oneTimePreKeys = {}
    /\ uploads = 0
    /\ otpReturned = <<>>
    /\ TokInit

\* Users 1 and 2 upload keys; bundles of them are fetched concurrently.
KeyStoreNext ==
    \E p \in Workers :
        \/ \E u \in Members, hasKeys \in BOOLEAN, keyIds \in SUBSET KeyIds :
              UkUpload(p, u, hasKeys, hasKeys, keyIds)
        \/ \E u \in Members : GbStart(p, u)
        \/ GbDelete(p)
        \/ Return(p)

KeyStoreSpec == KeyStoreInit /\ [][KeyStoreNext]_vars

\* ------------------------------------------------------------ group specification
\* Ninety-eight further users, all with keys.
Crowd == 4..101
CrowdIds == [i \in 1..98 |-> 3 + i]

\* There is no conversation; users 1 and 2 and the crowd have completed the
\* key setup, user 3 has not.
GroupInit ==
    /\ conversations = {}
    /\ participants = <<>>
    /\ messages = {}
    /\ receipts = {}
    /\ friendships = <<>>
    /\ fsLock = {}
    /\ nextMsgId = 1
    /\ nextConvId = 1
    /\ now = 0
    /\ pc = [p \in Procs |-> "idle"]
    /\ call = [p \in Procs |-> EmptyCall]
    /\ ret = NoRet
    /\ nSent = [u \in Users |-> 0]
    /\ nRead = [u \in Users |-> 0]
    /\ pager = NoPager
    /\ SockInit
    /\ identityKeys = {1, 2} \cup Crowd
    /\ signedPreKeys = {1, 2} \cup Crowd
    /\ oneTimePreKeys = {}
    /\ uploads = 0
    /\ otpReturned = <<>>
    /\ TokInit

\* The participantIds of the createGroup requests: none, one, with duplicates
\* and the owner, somebody without keys, and lists that make 100 and 101 members.
GroupRequests ==
    {<<>>, <<2>>, <<1, 2, 2>>, <<3>>, <<2>> \o CrowdIds, <<2, 3>> \o CrowdIds}

\* Handler p is the only one at work.
Alone(p) == \A q \in Procs \ {p} : pc[q] = "idle"

\* Groups are created and their participants added and removed, one call
\* after the other.
GroupNext ==
    \E p \in Workers :
        \/ Alone(p) /\ \E o \in {1, 3}, ids \in GroupRequests : CgStart(p, o, ids)
        \/ Alone(p) /\ CgCreate(p)
        \/ Alone(p) /\ \E c \in ConvIds, a, u \in Users : ApStart(p, c, a, u)
        \/ Alone(p) /\ ApCreate(p)
        \/ Alone(p) /\ \E c \in ConvIds, a, u \in Users : RpStart(p, c, a, u)
        \/ Alone(p) /\ RpDelete(p)
        \/ Alone(p) /\ RpCount(p)
        \/ Alone(p) /\ RpCleanup(p)
        \/ Alone(p) /\ UkUpload(p, 3, TRUE, TRUE, {})
        \/ Alone(p) /\ Return(p)

GroupSpec == GroupInit /\ [][GroupNext]_vars

\* ------------------------------------------------------------ leaving specification
\* Messages are sent and read, one call at a time; the participants of the
\* conversation are removed by concurrent calls.
LeaveNext ==
    \/ \E p \in Workers : \/ Alone(p) /\ SendStep(p)
                          \/ Alone(p) /\ ReadStep(p)
                          \/ RemoveStep(p)
                          \/ Return(p)
    \/ Tick

LeaveSpec == Init /\ [][LeaveNext]_vars

\* ------------------------------------------------------------ refresh tokens
\* A refresh token is presented as its plain text and looked up by its hash:
\* the model names a token by the id of its row.
TokenIds == 1..MaxTokens

\* A new token outlives the clock of the model (REFRESH_EXPIRES is 7 days).
Lifetime == MaxTime + 1

TkFinish(p, result) == /\ pc' = [pc EXCEPT ![p] = "done"]
                       /\ call' = [call EXCEPT ![p] = EmptyCall]
                       /\ ret' = result
                       /\ UNCHANGED <<pager, sockVars, keyVars>>

TkGoto(p, label, fields) == /\ pc' = [pc EXCEPT ![p] = label]
                            /\ call' = [call EXCEPT ![p] = fields]
                            /\ UNCHANGED <<ret, pager, sockVars, keyVars>>

\* The call throws TokenError(message).
TokenError(p, message) ==
    TkFinish(p, [Ok("rotateRefreshToken") EXCEPT !.err = "TokenError", !.path = message])

NewToken(userId) ==
    [userId |-> userId, revoked |-> FALSE, expiresAt |-> now + Lifetime,
     replacedById |-> Null]

\* issueRefreshToken: a row is created for the user.
IssueRefreshToken(p, userId) ==
    /\ Free(p)
    /\ nextTokenId \in TokenIds
    /\ refreshTokens' = [t \in DOMAIN refreshTokens \cup {nextTokenId} |->
                            IF t = nextTokenId THEN NewToken(userId) ELSE refreshTokens[t]]
    /\ nextTokenId' = nextTokenId + 1
    /\ TkFinish(p, [Ok("issueRefreshToken") EXCEPT !.user = userId, !.marked = nextTokenId])
    /\ UNCHANGED <<conversations, participants, messages, receipts, friendships,
                   fsLock, nextMsgId, nextConvId, now, nSent, nRead>>

\* updateMany({ where: { userId }, data: { revoked: true } }).
RevokeAll(userId) ==
    [t \in DOMAIN refreshTokens |->
        IF refreshTokens[t].userId = userId
          THEN [refreshTokens[t] EXCEPT !.revoked = TRUE]
          ELSE refreshTokens[t]]

\* rotateRefreshToken: the token is looked up; a missing, revoked or expired
\* token is refused, a revoked one after revoking all tokens of its user.
RtFind(p, currentToken) ==
    /\ Free(p)
    /\ nextTokenId + Cardinality({q \in Procs : pc[q] = "rt_create"}) \in TokenIds
    /\ IF currentToken = Null
         THEN TokenError(p, "No token provided")
       ELSE IF currentToken \notin DOMAIN refreshTokens
         THEN TokenError(p, "Refresh token not found or already used")
       ELSE LET tokenRecord == refreshTokens[currentToken]
                c0 == [EmptyCall EXCEPT !.op = "rotateRefreshToken",
                          !.user = tokenRecord.userId, !.arg = currentToken]
            IN IF tokenRecord.revoked
                 THEN TkGoto(p, "rt_revoke_all",
                             [c0 EXCEPT !.fstatus = "Refresh token revoked"])
               ELSE IF tokenRecord.expiresAt < now
                 THEN TokenError(p, "Refresh token expired")
               ELSE TkGoto(p, "rt_create", c0)
    /\ UNCHANGED <<conversations, participants, messages, receipts, friendships,
                   fsLock, nextMsgId, nextConvId, now, nSent, nRead, tokVars>>

\* rotateRefreshToken: the replacement token is created first.
RtCreate(p) ==
    /\ At(p, "rt_create")
    /\ refreshTokens' = [t \in DOMAIN refreshTokens \cup {nextTokenId} |->
                            IF t = nextTokenId THEN NewToken(call[p].user)
                                               ELSE refreshTokens[t]]
    /\ nextTokenId' = nextTokenId + 1
    /\ TkGoto(p, "rt_update", [call[p] EXCEPT !.msg = nextTokenId])
    /\ UNCHANGED <<conversations, participants, messages, receipts, friendships,
                   fsLock, nextMsgId, nextConvId, now, nSent, nRead>>

\* Mutant: the old token is marked whether or not it is revoked already.
StillUnrevoked_Any(row) == TRUE

\* where: { id, revoked: false }.
StillUnrevoked(row) == ~row.revoked

\* rotateRefreshToken: the old token is marked revoked if it is not revoked
\* yet, and the call succeeds; otherwise it goes on to clean up.
RtUpdate(p) ==
    /\ At(p, "rt_update")
    /\ LET old == call[p].arg
       IN IF old \in DOMAIN refreshTokens /\ StillUnrevoked(refreshTokens[old])
            THEN /\ refreshTokens' =
                       [refreshTokens EXCEPT ![old].revoked = TRUE,
                                             ![old].replacedById = call[p].msg]
                 /\ TkFinish(p, [Ok("rotateRefreshToken") EXCEPT !.user = call[p].user,
                                   !.arg = old, !.marked = call[p].msg])
            ELSE /\ UNCHANGED refreshTokens
                 /\ TkGoto(p, "rt_cleanup", call[p])
    /\ UNCHANGED <<conversations, participants, messages, receipts, friendships,
                   fsLock, nextMsgId, nextConvId, now, nSent, nRead, nextTokenId>>

\* rotateRefreshToken: the replacement token is deleted (an error is ignored).
RtCleanup(p) ==
    /\ At(p, "rt_cleanup")
    /\ refreshTokens' = [t \in DOMAIN refreshTokens \ {call[p].msg} |-> refreshTokens[t]]
    /\ TkGoto(p, "rt_revoke_all",
              [call[p] EXCEPT !.fstatus = "Refresh token reuse detected"])
    /\ UNCHANGED <<conversations, participants, messages, receipts, friendships,
                   fsLock, nextMsgId, nextConvId, now, nSent, nRead, nextTokenId>>

\* rotateRefreshToken: all tokens of the user are revoked and the call throws.
RtRevokeAll(p) ==
    /\ At(p, "rt_revoke_all")
    /\ refreshTokens' = RevokeAll(call[p].user)
    /\ TkFinish(p, [Ok("rotateRefreshToken") EXCEPT !.err = "TokenError",
                      !.path = call[p].fstatus, !.user = call[p].user,
                      !.arg = call[p].arg, !.marked = call[p].msg])
    /\ UNCHANGED <<conversations, participants, messages, receipts, friendships,
                   fsLock, nextMsgId, nextConvId, now, nSent, nRead, nextTokenId>>

\* revokeRefreshToken: the token's row, if there is one, is marked revoked.
RevokeRefreshToken(p, currentToken) ==
    /\ Free(p)
    /\ IF currentToken = Null \/ currentToken \notin DOMAIN refreshTokens
         THEN UNCHANGED refreshTokens
         ELSE refreshTokens' = [refreshTokens EXCEPT ![currentToken].revoked = TRUE]
    /\ TkFinish(p, [Ok("revokeRefreshToken") EXCEPT !.arg = currentToken])
    /\ UNCHANGED <<conversations, participants, messages, receipts, friendships,
                   fsLock, nextMsgId, nextConvId, now, nSent, nRead, nextTokenId>>

\* User 1 is logged in on two devices, one of them with a token that expires
\* at the first tick; user 2 is logged in on one.
TokenInit ==
    /\ conversations = {}
    /\ participants = <<>>
    /\ messages = {}
    /\ receipts = {}
    /\ friendships = <<>>
    /\ fsLock = {}
    /\ nextMsgId = 1
    /\ nextConvId = 1
    /\ now = 0
    /\ pc = [p \in Procs |-> "idle"]
    /\ call = [p \in Procs |-> EmptyCall]
    /\ ret = NoRet
    /\ nSent = [u \in Users |-> 0]
    /\ nRead = [u \in Users |-> 0]
    /\ pager = NoPager
    /\ SockInit
    /\ KeyInit
    /\ refreshTokens =
          [t \in {1, 2, 3} |->
              [userId |-> IF t = 3 THEN 2 ELSE 1, revoked |-> FALSE,
               expiresAt |-> IF t = 2 THEN 0 ELSE Lifetime, replacedById |-> Null]]
    /\ nextTokenId = 4

\* The replacement tokens no client has seen yet: their plain text is random
\* and is handed out only when the rotation succeeds.
Unknown == {call[q].msg : q \in {r \in Procs : pc[r] \in {"rt_update", "rt_cleanup"}}}

\* Tokens are rotated by concurrent calls; users log in and out.
TokenNext ==
    \/ \E p \in Workers :
          \/ \E t \in (TokenIds \cup {Null}) \ Unknown : RtFind(p, t)
          \/ RtCreate(p)
          \/ RtUpdate(p)
          \/ RtCleanup(p)
          \/ RtRevokeAll(p)
          \/ IssueRefreshToken(p, 2)
          \/ \E t \in {1, 3} : RevokeRefreshToken(p, t)
          \/ Return(p)
    \/ Tick

TokenSpec == TokenInit /\ [][TokenNext]_vars

\* ------------------------------------------------------------ outsider specification
\* Users 1 and 2 send and leave the conversation over REST, and user 1's
\* socket sends read_message, before and after leaving; one at a time.
OutsiderNext ==
    \/ \E s \in Sockets, c \in ConvIds, m \in MsgIds \cup {Null} : RmReceive(s, c, m)
    \/ \E p \in Workers :
          \/ RestSend(p) \/ CmBlocked(p) \/ CmInsert(p) \/ CmCommit(p)
          \/ Quiet /\ \E u \in Members : RpStart(p, 1, u, u)
          \/ RpDelete(p) \/ RpCount(p) \/ RpCleanup(p)
          \/ RestRespond(p)
          \/ RmCall(p) \/ MrSelect(p) \/ MrZero(p) \/ MrWrite(p) \/ RmRespond(p)

OutsiderSpec == SocketInit /\ [][OutsiderNext]_vars

\* ---------------------------------------------------------- presence specification
\* Users 1 and 2 are friends; nobody is connected.
PresenceInit ==
    /\ conversations = {DirectConv}
    /\ participants = [k \in {<<1, 1>>, <<1, 2>>} |-> [role |-> "MEMBER", unreadCount |-> 0]]
    /\ messages = {}
    /\ receipts = {}
    /\ friendships = [k \in {<<1, 2>>} |-> "ACCEPTED"]
    /\ fsLock = {}
    /\ nextMsgId = 1
    /\ nextConvId = 2
    /\ now = 0
    /\ pc = [p \in Procs |-> "idle"]
    /\ call = [p \in Procs |-> EmptyCall]
    /\ ret = NoRet
    /\ nSent = [u \in Users |-> 0]
    /\ nRead = [u \in Users |-> 0]
    /\ KeyInit
    /\ TokInit
    /\ SockInit
    /\ pager = NoPager

\* Devices connect and disconnect.
PresenceNext ==
    \/ \E s \in Sockets : AsStart(s) \/ AsUpdate(s) \/ AsNotify(s)
    \/ \E s \in Sockets : OdStart(s) \/ OdUpdate(s) \/ OdNotify(s)
    \/ Tick

PresenceSpec == PresenceInit /\ [][PresenceNext]_vars

\* ------------------------------------------------------------ codec specification
CursorIds == {Null} \cup MsgIds \cup ConvIds \cup {11, 12, 13}

\* Any cursor a caller may hold, well-formed or not.
CursorForms == TsForms \cup {"none"}

CodecInit ==
    /\ conversations = {}
    /\ participants = <<>>
    /\ messages = {}
    /\ receipts = {}
    /\ friendships = <<>>
    /\ fsLock = {}
    /\ nextMsgId = 1
    /\ nextConvId = 1
    /\ now = 0
    /\ pc = [p \in Procs |-> "idle"]
    /\ call = [p \in Procs |-> EmptyCall]
    /\ ret = NoRet
    /\ nSent = [u \in Users |-> 0]
    /\ nRead = [u \in Users |-> 0]
    /\ KeyInit
    /\ TokInit
    /\ SockInit
    /\ \E id \in CursorIds, form \in CursorForms, t \in Times :
          pager = [NoPager EXCEPT !.kind = "cursor",
                                  !.x = [kind |-> "full", id |-> id,
                                         createdAt |-> Stamp(form, t)]]

CodecNext == Encode \/ Decode

CodecSpec == CodecInit /\ [][CodecNext]_vars

\* Three handlers serve addFriend, and the accept it may run, only.
AddRaceNext == \E p \in Procs : AddStep(p) \/ AcceptRest(p) \/ Return(p)

AddRaceSpec == FriendInit /\ [][AddRaceNext]_vars

\* ===================================================================== claims
Conv1 == CHOOSE cv \in conversations : cv.id = 1
UnreadIn(parts, u) == parts[<<1, u>>].unreadCount
Unread(u) == UnreadIn(participants, u)
Control(m) == m.ctype = "SIGNAL_KEY_DISTRIBUTION"

\* C1: after any sequence of createMessage and markAsRead calls, a participant's
\* unreadCount is the number N of non-control messages sent to them minus the
\* number M of those they marked read, and is never negative.
C1_UnreadIsSentMinusRead ==
    \A u \in Members : Unread(u) = nSent[u] - nRead[u] /\ Unread(u) >= 0

\* C2: in every committed state a participant's unreadCount is the number of
\* (non-control) messages of the conversation sent by someone else that have no
\* receipt of the participant.
C2_UnreadMatchesReceipts ==
    \A u \in Members :
        Unread(u) = Cardinality({m \in messages : /\ m.conv = 1
                                                  /\ m.sender # u
                                                  /\ ~Control(m)
                                                  /\ <<m.id, u>> \notin receipts})

\* C3: when markAsRead calls of one participant interleave, none fails and each
\* lowers the unreadCount by exactly the number of receipts it created (stated
\* for conversations holding no control message).
C3_ReadRaceNoDoubleCount ==
    [][\A p \in Procs, u \in Members :
          (/\ pc[p] = "mr_write" /\ pc'[p] = "done"
           /\ call[p].user = u
           /\ \A m \in messages : ~Control(m))
          => /\ ret'.err = ""
             /\ UnreadIn(participants, u) - UnreadIn(participants', u)
                  = Cardinality(receipts' \ receipts)]_vars

\* C4: createMessage is atomic: a non-control Message row becomes visible in the
\* same step as every recipient's increment and the conversation's lastMessageId
\* / updatedAt, and a createMessage call that fails, or has not committed yet,
\* leaves messages, participants and conversations unchanged.
C4_CreateMessageAtomic ==
    [][/\ \A m \in messages' \ messages :
            ~Control(m) =>
              /\ \A u \in ParticipantsOf(m.conv) \ {m.sender} :
                    participants'[<<m.conv, u>>].unreadCount
                      = participants[<<m.conv, u>>].unreadCount + 1
              /\ \E cv \in conversations' :
                    cv.id = m.conv /\ cv.lastMessageId = m.id /\ cv.updatedAt = now
       /\ \A p \in Procs :
            (\/ pc[p] \in {"cm_blocked", "cm_insert"} /\ pc'[p] # pc[p]
             \/ pc'[p] = "done" /\ ret'.op = "createMessage" /\ ret'.err # "")
            => UNCHANGED <<messages, participants, conversations>>]_vars

\* C4 witness: a counted message is committed and a later createMessage failed
\* inside its transaction.
C4_Witness ==
    /\ ret.op = "createMessage" /\ ret.err = "ForeignKey"
    /\ \E m \in messages : ~Control(m) /\ Conv1.lastMessageId = m.id
                             /\ \E u \in Members : Unread(u) > 0

\* C5: a SIGNAL_KEY_DISTRIBUTION createMessage persists its message and leaves
\* the conversation's lastMessageId and updatedAt and every unreadCount unchanged.
C5_ControlMessageFrame ==
    [][\A p \in Procs :
          (pc[p] = "cm_commit" /\ pc'[p] = "done"
             /\ call[p].ctype = "SIGNAL_KEY_DISTRIBUTION")
          => /\ \E m \in messages' \ messages : m.id = call[p].msg /\ Control(m)
             /\ conversations' = conversations
             /\ participants' = participants]_vars

\* C5 witness: a control message is stored after a counted one, which is still
\* the conversation's last message.
C5_Witness ==
    \E k, m \in messages :
        /\ Control(k) /\ ~Control(m) /\ k.id > m.id
        /\ Conv1.lastMessageId = m.id /\ Unread(3 - m.sender) = 1

\* The messages markAsRead is to mark for user u with boundary id b (Null: none).
C6_Expected(u, b) ==
    {m \in messages :
        /\ m.conv = 1 /\ m.sender # u /\ <<m.id, u>> \notin receipts
        /\ b # Null => \E t \in messages : t.id = b /\ m.createdAt <= t.createdAt}

\* C6: a markAsRead call of a participant creates receipts for exactly the
\* messages by others at or before the boundary that had none, returns their
\* number as marked and the stored count, decremented by it and clamped at
\* zero, as newUnreadCount; one TEXT message m1 then gives marked 1 and count
\* 0, and a call with nothing to mark returns marked 0 and changes nothing.
C6_MarkAsReadResult ==
    [][\A p \in Procs, u \in Members, b \in {Null} \cup MsgIds, n \in 0..MaxMsgs :
          (/\ call[p].op = "markAsRead" /\ call[p].user = u /\ call[p].arg = b
           /\ n = Cardinality(C6_Expected(u, b))
           /\ pc'[p] = "done" /\ ret'.err = "")
          => /\ receipts' = receipts \cup {<<m.id, u>> : m \in C6_Expected(u, b)}
             /\ ret'.marked = n
             /\ ret'.unread = UnreadIn(participants', u)
             /\ UnreadIn(participants', u) = Max(0, UnreadIn(participants, u) - n)
             /\ n = 0 => UNCHANGED <<participants, receipts, messages, conversations>>
             /\ (/\ Cardinality(messages) = 1 /\ receipts = {}
                 /\ UnreadIn(participants, u) = 1
                 /\ \E m \in messages : m.id = b /\ m.sender # u /\ m.ctype = "TEXT")
                => /\ ret'.marked = 1 /\ ret'.unread = 0
                   /\ UnreadIn(participants', u) = 0]_vars

\* C6 witness: user 2 has just marked the single TEXT message of user 1 read.
C6_Witness ==
    /\ ret.op = "markAsRead" /\ ret.marked = 1 /\ ret.unread = 0
    /\ \E m \in messages : m.ctype = "TEXT" /\ m.sender = 1 /\ <<m.id, 2>> \in receipts
    /\ Cardinality(messages) = 1 /\ Unread(2) = 0

\* A BLOCKED Friendship row joins users a and b, in either orientation.
BlockedRow(a, b) ==
    \E k \in DOMAIN friendships :
        friendships[k] = "BLOCKED" /\ (k = <<a, b>> \/ k = <<b, a>>)

DirectOf(a, b) == {cv \in conversations : cv.type = "DIRECT" /\ {cv.a, cv.b} = {a, b}}

\* C8: under any interleaving of acceptFriendRequest and
\* getOrCreateConversation calls there is never more than one DIRECT
\* conversation for an unordered pair of users, and its participant columns
\* are in canonical order.
C8_OneDirectPerPair ==
    /\ \A a, b \in Users : Cardinality(DirectOf(a, b)) <= 1
    /\ \A cv \in conversations : cv.type = "DIRECT" => cv.a < cv.b

\* An accept of the request from user 2 to user 1 lost the creation race and
\* is in its catch block, the single conversation of the pair being in place.
C8_Witness ==
    /\ \E p \in Procs : pc[p] = "ac_requery" /\ call[p].fkey = <<2, 1>>
    /\ Cardinality(DirectOf(1, 2)) = 1

\* C9 (as stated): when both users of a PENDING friendship call
\* acceptFriendRequest on it at the same time, both calls succeed.
C9_BothUsersSucceed ==
    \A p, q \in Procs :
        ( /\ pc[p] = "done" /\ ret.op = "acceptFriendRequest"
          /\ pc[q] = "ac_update" /\ call[q].fkey = ret.key
          /\ call[q].user # ret.user /\ ret.user \in {ret.key[1], ret.key[2]}
          /\ ret.key \in DOMAIN friendships /\ friendships[ret.key] = "PENDING" )
        => ret.err = ""

\* C9 (amended): acceptFriendRequest fails only in its opening checks (no such
\* friendship, caller is not the addressee, status is not PENDING); the
\* requester's call is always refused as not authorized; every call that passes
\* the checks, however it interleaves with other calls, returns success with
\* the id of the one conversation of the pair and leaves the friendship
\* ACCEPTED, so two simultaneous calls by the addressee return the same id.
C9_AddresseeAcceptsAgree ==
    \A p \in Procs :
        (pc[p] = "done" /\ ret.op = "acceptFriendRequest") =>
            /\ ret.err \in {"", "NotFound", "NotAuthorized", "NotPending"}
            /\ (ret.key \in DOMAIN friendships /\ ret.user # ret.key[2])
                  => ret.err = "NotAuthorized"
            /\ ret.err = "" =>
                  /\ ret.user = ret.key[2]
                  /\ friendships[ret.key] = "ACCEPTED"
                  /\ DirectOf(ret.key[1], ret.key[2]) # {}
                  /\ \A cv \in DirectOf(ret.key[1], ret.key[2]) : cv.id = ret.conv

\* One accept by the addressee has returned the conversation while a second
\* accept by the addressee, which passed the PENDING check, is still to write.
C9_Witness ==
    \E p, q \in Procs :
        /\ pc[p] = "done" /\ ret.op = "acceptFriendRequest" /\ ret.err = ""
        /\ ret.conv # Null
        /\ pc[q] = "ac_update" /\ call[q].fkey = ret.key /\ call[q].user = ret.user

\* C10: getOrCreateConversation refuses a caller pairing with itself (or with
\* nobody) and creates nothing; for two distinct users it never fails, and
\* returns the id of the one conversation of the pair -- also when it lost the
\* creation race to a concurrent call.
C10_GetOrCreateAgrees ==
    [][\A p \in Procs :
        (pc'[p] = "done" /\ pc[p] # "done" /\ ret'.op = "getOrCreateConversation") =>
            IF ret'.arg = Null \/ ret'.arg = ret'.user
              THEN /\ ret'.err = "InvalidArgument"
                   /\ UNCHANGED <<conversations, participants>>
              ELSE /\ ret'.err = ""
                   /\ \E cv \in conversations' :
                        /\ cv.id = ret'.conv
                        /\ \A u, o \in Users :
                             (u = ret'.user /\ o = ret'.arg) =>
                                /\ {cv.a, cv.b} = {u, o}
                                /\ \A c2 \in conversations' :
                                     {c2.a, c2.b} = {u, o} => c2 = cv
                                /\ <<cv.id, u>> \in DOMAIN participants'
                                /\ <<cv.id, o>> \in DOMAIN participants']_vars

\* A getOrCreateConversation call lost the creation race and returned the row
\* created by its rival.
C10_Witness ==
    \E p \in Procs :
        /\ pc[p] = "done" /\ ret.op = "getOrCreateConversation"
        /\ ret.path = "raced" /\ ret.err = "" /\ ret.conv # Null

\* C11: every successful acceptFriendRequest returns a conversation that has a
\* Participant row for the requester and one for the addressee, whether this
\* call created it, found it, or lost the creation race.
C11_AcceptedPairAreParticipants ==
    \A p \in Procs :
        (pc[p] = "done" /\ ret.op = "acceptFriendRequest" /\ ret.err = "") =>
            /\ ret.conv # Null
            /\ <<ret.conv, ret.key[1]>> \in DOMAIN participants
            /\ <<ret.conv, ret.key[2]>> \in DOMAIN participants

\* C12: there is at most one Friendship row per unordered pair of users, under
\* any interleaving of addFriend and blockFriend calls.
C12_OneFriendshipPerPair ==
    \A a, b \in Users : Cardinality(FriendKeys(a, b)) <= 1

\* The handler p is running addFriend, or the accept that addFriend started.
InAddFriend(p) ==
    \/ call[p].op = "addFriend"
    \/ call[p].op = "acceptFriendRequest" /\ call[p].ctype = "addFriend"

\* C13: when u's addFriend targeting v returns while v's request to u is
\* PENDING (the two requests crossed), it returns without error and leaves a
\* single relationship between u and v, in status ACCEPTED.
C13_CrossingAddsCollapse ==
    [][\A p \in Procs, u, v \in Members :
        ( /\ u # v /\ InAddFriend(p) /\ call[p].user = u /\ pc'[p] = "done"
          /\ <<v, u>> \in DOMAIN friendships /\ friendships[<<v, u>>] = "PENDING" )
        => /\ ret'.err = ""
           /\ \E k \in DOMAIN friendships' :
                /\ {kk \in DOMAIN friendships' : kk \in {<<u, v>>, <<v, u>>}} = {k}
                /\ friendships'[k] = "ACCEPTED"]_vars

\* C14: every change of a Friendship's status is PENDING to ACCEPTED, DECLINED
\* or CANCELLED, anything to BLOCKED, or BLOCKED to ACCEPTED by unblockFriend;
\* accept, decline and cancel never overwrite a status that is not PENDING.
C14_StatusTransitions ==
    [][\A k \in DOMAIN friendships :
        (k \in DOMAIN friendships' /\ friendships'[k] # friendships[k]) =>
            \/ friendships[k] = "PENDING"
                 /\ friendships'[k] \in {"ACCEPTED", "DECLINED", "CANCELLED"}
            \/ friendships'[k] = "BLOCKED"
            \/ /\ friendships[k] = "BLOCKED" /\ friendships'[k] = "ACCEPTED"
               /\ \E p \in Procs : pc[p] = "ub_write" /\ pc'[p] = "done"]_vars

\* C15: with user 1 the only one to have called blockFriend, unblockFriend
\* changes the relationship only when called by user 1; called by user 2 it is
\* rejected as forbidden and the relationship stays BLOCKED -- whichever user
\* had requested the row before the block.
C15_OnlyBlockerUnblocks ==
    [][\A p \in Procs :
        /\ (pc[p] = "ub_write" /\ pc'[p] = "done" /\ friendships' # friendships)
              => call[p].user = 1
        /\ (pc[p] = "idle" /\ pc'[p] = "ub_write") => call'[p].user = 1]_vars

\* The caller `u` may write the status that `op` writes on the row `k`, as the
\* store stands: the row exists, is PENDING, and u is its addressee (accept,
\* decline) or its requester (cancel).
C16_Allowed(op, k, u) ==
    /\ k \in DOMAIN friendships
    /\ friendships[k] = "PENDING"
    /\ u = (IF op = "cancelFriendRequest" THEN k[1] ELSE k[2])

\* C16: acceptFriendRequest and declineFriend go past their opening checks only
\* for the addressee, cancelFriendRequest only for the requester, and each only
\* if the friendship is found PENDING; only calls that passed the checks
\* succeed; a call is rejected only when a check fails, and a rejected call
\* leaves the friendships, the conversations and the participants unchanged.
C16_GuardsOfAcceptDeclineCancel ==
    [][\A p \in Procs :
        /\ (pc[p] \in {"idle", "ac_find"} /\ pc'[p] \in {"ac_update", "dc_update"})
              => C16_Allowed(call'[p].op, call'[p].fkey, call'[p].user)
        /\ ( /\ pc[p] # "done" /\ pc'[p] = "done"
             /\ ret'.op \in {"acceptFriendRequest", "declineFriend", "cancelFriendRequest"} )
              => IF ret'.err = ""
                   THEN /\ pc[p] \in {"ac_findconv", "ac_create", "ac_reaccept", "dc_update"}
                        /\ call[p].op = ret'.op /\ call[p].fkey = ret'.key
                        /\ call[p].user = ret'.user
                   ELSE /\ ~C16_Allowed(ret'.op, ret'.key, ret'.user)
                        /\ UNCHANGED <<friendships, conversations, participants>>]_vars

\* The addressee's cancelFriendRequest on a PENDING request was rejected.
C16_Witness ==
    \E p \in Procs :
        /\ pc[p] = "done" /\ ret.op = "cancelFriendRequest" /\ ret.err = "NotAuthorized"
        /\ ret.key \in DOMAIN friendships /\ friendships[ret.key] = "PENDING"
        /\ ret.user = ret.key[2]

\* C17 (as stated): when the only relationship of the pair is DECLINED,
\* CANCELLED or BLOCKED, addFriend goes on to create a PENDING friendship.
C17_ReAddCreatesPending ==
    [][\A p \in Procs, u, f \in Members :
        ( /\ pc[p] = "idle" /\ pc'[p] # "idle" /\ u # f
          /\ \/ pc'[p] = "done" /\ ret'.op = "addFriend" /\ ret'.user = u /\ ret'.arg = f
             \/ call'[p].op = "addFriend" /\ call'[p].user = u /\ call'[p].arg = f
          /\ \E k \in FriendKeys(u, f) :
                /\ FriendKeys(u, f) = {k}
                /\ friendships[k] \in {"DECLINED", "CANCELLED", "BLOCKED"} )
        => pc'[p] = "af_create"]_vars

\* C17 (amended): addFriend answers not-found for an unknown friend code and
\* rejects a self-add; with no relationship between caller and target it goes
\* on to create a PENDING friendship from the caller to the target; with a
\* relationship it auto-accepts a PENDING request addressed to the caller and
\* answers conflict in every other case (PENDING from the caller, ACCEPTED,
\* DECLINED, CANCELLED, BLOCKED).
C17_AddFriendCases ==
    [][\A p \in Procs, u \in Members, f \in Members \cup {Null} :
        /\ ( /\ pc[p] = "idle" /\ pc'[p] # "idle"
             /\ \/ pc'[p] = "done" /\ ret'.op = "addFriend" /\ ret'.user = u /\ ret'.arg = f
                \/ call'[p].op = "addFriend" /\ call'[p].user = u /\ call'[p].arg = f )
           => IF f = Null THEN pc'[p] = "done" /\ ret'.err = "NotFound"
              ELSE IF f = u THEN pc'[p] = "done" /\ ret'.err = "InvalidArgument"
              ELSE IF FriendKeys(u, f) = {} THEN pc'[p] = "af_create"
              ELSE \E k \in FriendKeys(u, f) :
                      IF friendships[k] = "PENDING" /\ k[2] = u
                        THEN pc'[p] = "ac_find" /\ call'[p].fkey = k
                        ELSE pc'[p] = "done" /\ ret'.err = "Conflict"
        /\ ( /\ pc[p] = "af_create" /\ pc'[p] = "done" /\ ret'.err = ""
             /\ call[p].user = u /\ call[p].arg = f )
           => /\ <<u, f>> \notin DOMAIN friendships
              /\ <<u, f>> \in DOMAIN friendships'
              /\ friendships'[<<u, f>>] = "PENDING"
              /\ \A k \in DOMAIN friendships : friendships'[k] = friendships[k]]_vars

\* addFriend was refused with a conflict, the relationship being DECLINED.
C17_Witness ==
    \E p \in Procs :
        /\ pc[p] = "done" /\ ret.op = "addFriend" /\ ret.err = "Conflict"
        /\ \E k \in FriendKeys(ret.user, ret.arg) : friendships[k] = "DECLINED"

\* A cursor both of whose fields are given, the timestamp being a valid date.
C20_Valid(x) ==
    x.id # Null /\ Truthy(x.createdAt) /\ x.createdAt.form \notin {"bad", "none"}

Occurrences(id) == Cardinality({i \in 1..Len(pager.pages) : pager.pages[i] = id})

\* C18: the pages of getMessages never repeat a message, and once nextCursor
\* is null they hold every message that existed when paging began exactly
\* once -- whatever was inserted between the fetches, and with messages
\* sharing a createdAt.
C18_MessagePagesComplete ==
    /\ pager.kind \in {"messages", "messages_end"} =>
          \A i, j \in 1..Len(pager.pages) : pager.pages[i] = pager.pages[j] => i = j
    /\ pager.kind = "messages_end" => \A id \in pager.snapshot : Occurrences(id) = 1

\* Paging one message at a time ended after a message inserted meanwhile -- of
\* the timestamp of an older one, with a smaller id -- turned up on a page.
C18_Witness ==
    /\ pager.kind = "messages_end" /\ pager.limit = 1
    /\ Cardinality(pager.snapshot) = 3
    /\ \E i \in 1..Len(pager.pages) : pager.pages[i] \notin pager.snapshot
    /\ \E m, n \in messages : m.id # n.id /\ m.createdAt = n.createdAt

\* C19: the pages of listConversations never repeat a conversation, and once
\* nextCursor is null they hold every conversation the user had when paging
\* began exactly once -- also when messages are sent between the fetches.
C19_ConversationPagesComplete ==
    /\ pager.kind \in {"conversations", "conversations_end"} =>
          \A i, j \in 1..Len(pager.pages) : pager.pages[i] = pager.pages[j] => i = j
    /\ pager.kind = "conversations_end" =>
          \A id \in pager.snapshot : Occurrences(id) = 1

\* C21: deleteMessage by the sender removes the message row and succeeds, for
\* every existing message whether or not it has been read; by anybody else it
\* fails (Forbidden, or not found) and leaves the messages as they were.
C21_SenderDeletes ==
    [][\A p \in Procs :
         /\ (pc[p] = "dl_delete" /\ pc'[p] = "done") =>
               /\ ret'.err = ""
               /\ \A m \in messages' : m.id # call[p].arg
         /\ (pc[p] = "idle" /\ pc'[p] = "done" /\ ret'.op = "deleteMessage") =>
               /\ ret'.err \in {"NotFound", "Forbidden"}
               /\ messages' = messages]_vars

\* The handler of socket s takes a step.
SocketSteps(s) == socks'[s] # socks[s]

\* C22: the status of a user changes to ONLINE, and presence=true is emitted,
\* only in the open that made the connection set grow from 0 to 1; it changes
\* to OFFLINE with a last-seen timestamp, and presence=false is emitted with
\* it, only in the close that emptied the set; an open or close that leaves
\* other connections changes no status and emits no presence event.
C22_PresenceOnFirstAndLast ==
    [][\A s \in Sockets :
         SocketSteps(s) =>
            LET u == SocketUser(s)
                trigger == socks'[s].trigger
                presence == {e \in emitted' : e.ev = "presence"}
            IN /\ \A v \in Users \ {u} : userStatus'[v] = userStatus[v]
               /\ \A e \in presence : e.user = u
               /\ trigger = "other" =>
                     userStatus'[u] = userStatus[u] /\ presence = {}
               /\ trigger = "first" =>
                     /\ userStatus'[u] # userStatus[u] =>
                           userStatus'[u] = [userStatus[u] EXCEPT !.status = "ONLINE"]
                     /\ \A e \in presence : e.online
               /\ trigger = "last" =>
                     /\ userStatus'[u] # userStatus[u] =>
                           /\ userStatus'[u].status = "OFFLINE"
                           /\ userStatus'[u].lastSeen \in Times
                     /\ \A e \in presence : ~e.online /\ e.lastSeen \in Times]_vars

\* A device of user 1 connected while another was open, then the last one
\* closed and its presence=false reached the friend's room.
C22_Witness ==
    /\ \E s \in Sockets : socks[s].trigger = "other"
    /\ userStatus[1].status = "OFFLINE" /\ userStatus[1].lastSeen \in Times
    /\ \E e \in emitted : e.ev = "presence" /\ ~e.online /\ e.to = UserRoom(2)

\* C23: a socket enters a conversation's room only while its user is a
\* participant of that conversation; a join that is refused leaves the socket
\* outside the room.
C23_JoinOnlyParticipants ==
    [][\A s \in Sockets, c \in ConvIds :
         /\ (<<s, ConvRoom(c)>> \notin rooms /\ <<s, ConvRoom(c)>> \in rooms') =>
               IsParticipant(c, SocketUser(s))
         /\ (/\ SocketSteps(s)
             /\ socks'[s].ev = "join_conversation" /\ socks'[s].res = "failed"
             /\ socks'[s].conv = c) =>
               <<s, ConvRoom(c)>> \notin rooms']_vars

\* C24: a socket operation that fails (send, edit, delete, mark-read, join)
\* produces a failure acknowledgement or an `error` event to the calling
\* socket, whether or not the client passed an acknowledgement callback.
C24_FailuresAreReported ==
    [][\A s \in Sockets :
         (/\ SocketSteps(s)
          /\ socks'[s].res = "failed"
          /\ socks'[s].ev \in {"send_message", "edit_message", "delete_message",
                               "read_message", "join_conversation"}) =>
            \E e \in emitted' :
                /\ e.to = Caller(s)
                /\ e.ev = "error" \/ (e.ev = "ack" /\ ~e.ok)]_vars

\* C25: a SIGNAL_KEY_DISTRIBUTION message that was sent, over REST or over the
\* socket, is emitted as `message` to the conversation's room, and no
\* conversation.updated event carries it as lastMessage.
C25_ControlMessageNotInSummary ==
    [][\A p \in Procs :
         (/\ pc[p] = "done" /\ pc'[p] = "idle"
          /\ ret.op = "createMessage" /\ ret.err = ""
          /\ \E m \in MsgById(ret.arg) : IsKeyDistribution(m.ctype)) =>
            /\ \E e \in emitted' :
                  e.ev = "message" /\ e.to = ConvRoom(ret.conv) /\ e.msg = ret.arg
            /\ \A e \in emitted' :
                  e.ev = "conversation.updated" => e.msg # ret.arg]_vars

\* C26: the lastMessage that getConversation and listConversations report is
\* never a SIGNAL_KEY_DISTRIBUTION message, and the unreadCount they report
\* counts no such message.
C26_SummaryExcludesControl ==
    \A p \in Procs :
        (/\ pc[p] = "done"
         /\ ret.op \in {"getConversation", "listConversations"}
         /\ ret.err = "") =>
           /\ \A m \in MsgById(ret.arg) : ~IsKeyDistribution(m.ctype)
           /\ ret.unread = Cardinality({m \in UnreadRows(ret.conv, ret.user) :
                                           ~IsKeyDistribution(m.ctype)})

\* C27: no one-time pre-key is handed out twice, however concurrent fetches
\* interleave; a fetch answers with a null oneTimePreKey only when the user
\* has none left, otherwise it goes for one of the user's keys, and the key a
\* fetch returns was stored and is deleted -- so of two fetches for a user
\* with one key the first returns it and the second returns null.
C27_PreKeyHandedOutOnce ==
    [][/\ \A i, j \in 1..Len(otpReturned') :
             otpReturned'[i] = otpReturned'[j] => i = j
       /\ \A p \in Procs :
             /\ (/\ pc[p] = "idle" /\ pc'[p] = "done"
                 /\ ret'.op = "getPreKeyBundle" /\ ret'.err = "") =>
                   ret'.key = NoKey /\ PreKeysOf(ret'.user) = {}
             /\ (pc[p] = "idle" /\ pc'[p] = "gb_delete") =>
                   call'[p].fkey \in PreKeysOf(call'[p].user)
             /\ (pc[p] = "gb_delete" /\ pc'[p] = "done" /\ ret'.err = "") =>
                   /\ ret'.key = call[p].fkey
                   /\ ret'.key \in oneTimePreKeys
                   /\ ret'.key \notin oneTimePreKeys']_vars

\* Two fetches found the same key: one got it, the other failed; and a later
\* fetch found none left.
C27_Witness ==
    /\ Len(otpReturned) >= 1
    /\ \E p \in Procs : pc[p] = "done"
    /\ ret.op = "getPreKeyBundle"
    /\ ret.err = "RecordNotFound"
    /\ PreKeysOf(otpReturned[1][1]) = {}

\* C28: the one-time pre-key a fetch returns and deletes is the one uploaded
\* earliest among the user's remaining keys, in whatever order key ids were
\* uploaded.
C28_OldestPreKeyFirst ==
    [][\A p \in Procs :
         (pc[p] = "gb_delete" /\ pc'[p] = "done" /\ ret'.err = "") =>
            \A k \in PreKeysOf(ret'.user) : ret'.key[3] <= k[3]]_vars

\* The participants of conversation c after the step.
ParticipantsAfter(c) == {k[2] : k \in {kk \in DOMAIN participants' : kk[1] = c}}

\* C29: a GROUP conversation comes into being only with the deduplicated
\* members of the request, the owner included, at most 100 of them and each
\* with an IdentityKey; it has one Participant row per member, ADMIN for the
\* owner and MEMBER for everybody else; a refused createGroup creates no
\* conversation and no participant.
C29_CreateGroup ==
    [][\A p \in Procs :
         /\ \A g \in conversations' \ conversations :
               (g.type = "GROUP" /\ pc[p] = "cg_create" /\ pc'[p] = "done") =>
                  LET members == ParticipantsAfter(g.id)
                  IN /\ members = call[p].sel
                     /\ call[p].user \in members
                     /\ Cardinality(members) <= 100
                     /\ members \subseteq identityKeys
                     /\ \A u \in members :
                           participants'[<<g.id, u>>].role =
                              IF u = call[p].user THEN "ADMIN" ELSE "MEMBER"
                     /\ DOMAIN participants' \ DOMAIN participants =
                           {<<g.id, u>> : u \in members}
         /\ (pc'[p] = "done" /\ pc[p] # "done"
             /\ ret'.op = "createGroup" /\ ret'.err # "") =>
               conversations' = conversations /\ participants' = participants]_vars

\* A group of exactly 100 exists, and a request for 101 members was refused.
C29_Witness ==
    /\ \E g \in conversations :
          g.type = "GROUP" /\ Cardinality(ParticipantsOf(g.id)) = 100
    /\ \E p \in Procs : pc[p] = "done"
    /\ ret.op = "createGroup" /\ ret.err = "LimitExceeded"

\* C30: addParticipant inserts a Participant row only for a user with an
\* IdentityKey and only when the caller is an ADMIN participant;
\* removeParticipant deletes the row of somebody other than the caller only
\* when the caller is an ADMIN participant, and the caller's own row for any
\* participant; a refused call changes no Participant row.
C30_AddRemoveGuards ==
    [][\A p \in Procs :
         /\ (pc[p] = "ap_create" /\ pc'[p] = "done") =>
               \A k \in DOMAIN participants' \ DOMAIN participants :
                  /\ k = <<call[p].conv, call[p].arg>>
                  /\ k[2] \in identityKeys
                  /\ IsParticipant(k[1], call[p].user)
                  /\ participants[<<k[1], call[p].user>>].role = "ADMIN"
         /\ (pc[p] = "rp_delete" /\ pc'[p] # "rp_delete") =>
               \A k \in DOMAIN participants \ DOMAIN participants' :
                  /\ k = <<call[p].conv, call[p].arg>>
                  /\ IsParticipant(k[1], call[p].user)
                  /\ k[2] # call[p].user =>
                        participants[<<k[1], call[p].user>>].role = "ADMIN"
         /\ (pc[p] = "idle" /\ pc'[p] = "done"
             /\ ret'.op \in {"addParticipant", "removeParticipant"}
             /\ ret'.err # "") =>
               participants' = participants]_vars

\* An admin added user 3 once it had keys, and member 2, who administers
\* nothing, removed itself from a group that lives on.
C30_Witness ==
    /\ \E c \in ConvIds : IsParticipant(c, 3) /\ participants[<<c, 3>>].role = "MEMBER"
    /\ \E p \in Procs : pc[p] = "done"
    /\ ret.op = "removeParticipant" /\ ret.err = "" /\ ret.user = 2 /\ ret.marked = 1
    /\ ~IsParticipant(ret.conv, 2)
    /\ ParticipantsOf(ret.conv) # {}

\* No removeParticipant call is in progress.
RemovalsDone == \A p \in Procs : pc[p] \notin {"rp_delete", "rp_count", "rp_cleanup"}

\* C31: once every removeParticipant call has completed, no conversation
\* without participants remains.
C31_NoEmptyConversation ==
    RemovalsDone => \A cv \in conversations : ParticipantsOf(cv.id) # {}

\* The refresh tokens of user u.
TokensOf(u) == {t \in DOMAIN refreshTokens : refreshTokens[t].userId = u}

\* C32: a rotation succeeds only on a token that was not revoked before its
\* conditional update, so of the rotations presenting one token at most one
\* succeeds; a rotation whose conditional update finds the token revoked
\* changes no row with it, has its replacement token removed, revokes every
\* token of the user and ends with a token error.
C32_OneRotationWins ==
    [][\A p \in Procs :
         /\ (pc[p] = "rt_update" /\ pc'[p] = "done") =>
               /\ ~refreshTokens[call[p].arg].revoked
               /\ refreshTokens'[call[p].arg].revoked
               /\ ret'.err = ""
         /\ (pc[p] = "rt_update" /\ pc'[p] # "rt_update"
             /\ refreshTokens[call[p].arg].revoked) =>
               /\ pc'[p] = "rt_cleanup"
               /\ refreshTokens' = refreshTokens
         /\ (pc[p] = "rt_cleanup" /\ pc'[p] # "rt_cleanup") =>
               /\ pc'[p] = "rt_revoke_all"
               /\ call[p].msg \notin DOMAIN refreshTokens'
         /\ (pc[p] = "rt_revoke_all" /\ pc'[p] # "rt_revoke_all") =>
               /\ pc'[p] = "done"
               /\ ret'.op = "rotateRefreshToken" /\ ret'.err = "TokenError"
               /\ call[p].msg \notin DOMAIN refreshTokens'
               /\ \A t \in DOMAIN refreshTokens' :
                     refreshTokens'[t].userId = call[p].user =>
                        refreshTokens'[t].revoked
         /\ \A t \in DOMAIN refreshTokens :
               refreshTokens[t].revoked =>
                  (t \in DOMAIN refreshTokens' => refreshTokens'[t].revoked)]_vars

\* Two rotations presented token 1 together: one won, and the other has just
\* ended with the reuse error, its replacement gone and user 1's tokens revoked.
C32_Witness ==
    /\ \E p \in Procs : pc[p] = "done"
    /\ ret.op = "rotateRefreshToken" /\ ret.err = "TokenError"
    /\ ret.path = "Refresh token reuse detected" /\ ret.arg = 1
    /\ refreshTokens[1].replacedById # Null
    /\ refreshTokens[1].replacedById # ret.marked
    /\ ret.marked \notin DOMAIN refreshTokens
    /\ \A t \in TokensOf(1) : refreshTokens[t].revoked

\* No attachSocket and no onDisconnect is in progress.
ConnectionsSettled == \A s \in Sockets : socks[s].st \in {"closed", "open"}

\* C33: once every open and close handler has run to completion, a user is
\* persisted ONLINE if its connection set is non-empty and OFFLINE if it is
\* empty.
C33_StatusMatchesConnections ==
    ConnectionsSettled =>
        \A u \in Users :
            userStatus[u].status = IF userSockets[u] # {} THEN "ONLINE" ELSE "OFFLINE"

\* No createMessage call is in progress.
SendsDone == \A p \in Procs : pc[p] \notin {"cm_blocked", "cm_insert", "cm_commit"}

\* The non-control messages of conversation c.
Countable(c) == {m \in messages : m.conv = c /\ m.ctype # "SIGNAL_KEY_DISTRIBUTION"}

\* C34: once every createMessage call has committed, a conversation's
\* lastMessageId is the non-control message with the greatest (createdAt, id).
C34_LastMessageIsNewest ==
    SendsDone =>
        \A cv \in conversations :
            \A m \in Countable(cv.id) :
                (\A o \in Countable(cv.id) :
                    o.createdAt < m.createdAt
                      \/ (o.createdAt = m.createdAt /\ o.id <= m.id))
                  => cv.lastMessageId = m.id

\* C35: a conversation's lastMessageId is null or the id of an existing
\* message of that conversation.
C35_LastMessageExists ==
    \A cv \in conversations :
        cv.lastMessageId = Null
          \/ \E m \in messages : m.id = cv.lastMessageId /\ m.conv = cv.id

\* The pair of friendship k has a DIRECT conversation with both Participant
\* rows, after the step.
DirectReadyAfter(k) ==
    \E cv \in conversations' :
        /\ cv.type = "DIRECT"
        /\ {cv.a, cv.b} = {k[1], k[2]}
        /\ <<cv.id, k[1]>> \in DOMAIN participants'
        /\ <<cv.id, k[2]>> \in DOMAIN participants'

\* C36: a step that turns a Friendship ACCEPTED leaves a DIRECT conversation
\* of the pair with both Participant rows in the same committed state.
C36_AcceptedHasConversation ==
    [][\A k \in DOMAIN friendships' :
          (friendships'[k] = "ACCEPTED"
             /\ (k \notin DOMAIN friendships \/ friendships[k] # "ACCEPTED"))
            => DirectReadyAfter(k)]_vars

\* C37: createMessage inserts no message into a DIRECT conversation, and
\* commits none, while a BLOCKED relationship between its two users is
\* committed.
C37_NoSendAfterBlock ==
    [][\A p \in Procs :
          (\/ pc[p] = "cm_insert" /\ pc'[p] = "cm_commit"
           \/ pc[p] = "cm_commit" /\ pc'[p] = "done")
            => \A cv \in conversations :
                  (cv.id = call[p].conv /\ cv.type = "DIRECT")
                     => ~IsBlocked(cv.a, cv.b)]_vars

\* C38: a socket that is in a conversation's room belongs to a user who is a
\* participant of that conversation.
C38_RoomMembersAreParticipants ==
    \A s \in Sockets, c \in ConvIds :
        <<s, ConvRoom(c)>> \in rooms => IsParticipant(c, SocketUser(s))

\* C39: while the read_message of a socket whose user is not a participant of
\* the conversation is handled, no MessageReceipt is created, no unreadCount
\* changes and no read_receipt is emitted.
C39_OutsiderReadChangesNothing ==
    [][\A s \in Sockets :
          (Calling(s, "read_message") /\ ~IsParticipant(socks[s].conv, SocketUser(s)))
            => /\ receipts' = receipts
               /\ participants' = participants
               /\ \A e \in emitted' : e.ev # "read_receipt"]_vars

\* User 1, no longer a participant of conversation 1, has sent read_message
\* for it while a message of user 2 was unread, and markAsRead has thrown on
\* the missing Participant row.
C39_Witness ==
    /\ Calling(1, "read_message") /\ socks[1].conv = 1
    /\ \E p \in Procs : pc[p] = "done"
    /\ ret.op = "markAsRead" /\ ret.err = "RecordNotFound"
    /\ ~IsParticipant(1, 1)
    /\ \E m \in messages : m.conv = 1 /\ m.sender = 2 /\ <<m.id, 1>> \notin receipts

\* C40: every GROUP conversation that has participants has an ADMIN among them.
C40_GroupHasAdmin ==
    \A cv \in conversations :
        (cv.type = "GROUP" /\ ParticipantsOf(cv.id) # {})
          => \E u \in ParticipantsOf(cv.id) : participants[<<cv.id, u>>].role = "ADMIN"

====
